---- MODULE Spec2Model ----
(***************************************************************************)
(* Multi-device audio playback engine (multi_device_audio.py) and the      *)
(* request handlers of the web server (Latest.py) that drive it.           *)
(*                                                                         *)
(* Threads of the program and how they appear here:                        *)
(*   - request handlers (Flask runs threaded=True): slots of req;          *)
(*   - play_on_device invocations (run by a handler or by the thread pool  *)
(*     of play_on_all_devices): entries of calls;                          *)
(*   - playback workers (one daemon thread per started session): the wpc   *)
(*     field of a session;                                                 *)
(*   - the audio backend and the clock: Drain, Tick.                       *)
(* Python dicts are functions whose DOMAIN is the set of keys.             *)
(***************************************************************************)
EXTENDS Integers, Sequences, FiniteSets, TLC

\* ---- bounds of the model ----
NumDevices == 3        \* output devices of the host
MaxSessions == 3       \* play_on_device invocations that get past their checks
MaxRequests == 2       \* request handlers running at the same time
ConfiguredCap == 2     \* value the engine's max_simultaneous_streams is configured with
MaxBatches == 2        \* playback ids handed out
MaxFiles == 2          \* files in one play-multi request
MaxOps == 3            \* requests accepted in one run of the engine
ServerOps == 2         \* requests accepted in one run of the whole server
ServerSessions == 2    \* sessions created in one run of the whole server
MaxFaults == 1         \* steps in which the backend or the file system fails
MaxOutputs == 2        \* largest max_output_channels of a host device
MaxChannels == 3       \* largest channel count of an audio buffer

DeviceIds == 0 .. (NumDevices - 1)
\* a session is named by its device and its rank among that device's sessions
SessionIds == DeviceIds \X (1 .. MaxSessions)
RequestIds == 1 .. MaxRequests

VARIABLES
    host,                     \* the host audio subsystem: [channels: device index ->
                              \*   max_output_channels, default: sd.default.device[1]]
    devices,                  \* AudioDeviceManager.devices: the catalog (device indexes, in order)
    active_streams,           \* dict device_index -> stream (named by its session id)
    playback_threads,         \* dict device_index -> thread (named by its session id)
    stop_events,              \* dict device_index -> event  (named by its session id)
    is_playing,               \* AudioDeviceManager.is_playing
    max_simultaneous_streams, \* AudioDeviceManager.max_simultaneous_streams
    sessions,                 \* the objects one play_on_device invocation creates:
                              \*   session id -> [dev, event, stream, wpc, cb, batch, file, stopped]
    calls,                    \* play_on_device invocations in flight: <<request, device>> -> [pc, sid, cb]
    req,                      \* request handlers: slot -> [kind, pc, results, pid, tasks, i, err, seen, probed]
    active_playbacks,         \* Latest.active_playbacks: playback id -> batch record
    disk,                     \* temporary files that exist on disk
    ids,                      \* [pid, file]: playback ids and temp file names handed out so far
    budget                    \* what the run may still do: [ops] requests to accept, [faults]
                              \* failing steps, [sessions] invocations that create a session

vars == <<host, devices, active_streams, playback_threads, stop_events, is_playing,
          max_simultaneous_streams, sessions, calls, req, active_playbacks, disk, ids,
          budget>>

engineVars == <<host, devices, active_streams, playback_threads, stop_events, is_playing,
                max_simultaneous_streams>>
serverVars == <<active_playbacks, disk, ids>>

\* a step whose outcome ok is a failure counts against MaxFaults
MayFail(ok) == ok \/ budget.faults > 0
Charge(ok) == budget' = [budget EXCEPT !.faults = IF ok THEN @ ELSE @ - 1]
\* a request is accepted
MayAccept == budget.ops > 0
Accept == [budget EXCEPT !.ops = @ - 1]

\* ---- dict helpers ----
EmptyDict == <<>>
Put(f, k, v) == [x \in (DOMAIN f) \cup {k} |-> IF x = k THEN v ELSE f[x]]
Del(f, k) == [x \in (DOMAIN f) \ {k} |-> f[x]]
Range(f) == {f[x] : x \in DOMAIN f}
SeqRange(s) == {s[i] : i \in 1 .. Len(s)}

\* the catalog seen as a set of device indexes
Catalog == SeqRange(devices)

\* the indexes sd.query_devices() lists, in its order
HostIndexes == [i \in 1 .. NumDevices |-> i - 1]
HasOutput(d) == host.channels[d] > 0

IdleReq == [kind |-> "none", pc |-> "none", results |-> EmptyDict, pid |-> 0,
            tasks |-> <<>>, i |-> 0, err |-> FALSE, seen |-> 0, probed |-> {},
            atcall |-> {}]

\* the state after construction (AudioDeviceManager.__init__, the module
\* globals of Latest.py) on host h, for a run with budget b; cat is the
\* catalog the manager starts the run with
Constructed(b, h, cat) ==
    /\ host = h
    /\ devices = cat
    /\ active_streams = EmptyDict
    /\ playback_threads = EmptyDict
    /\ stop_events = EmptyDict
    /\ is_playing = FALSE
    /\ max_simultaneous_streams = ConfiguredCap
    /\ sessions = EmptyDict
    /\ calls = EmptyDict
    /\ req = [r \in RequestIds |-> IdleReq]
    /\ active_playbacks = EmptyDict
    /\ disk = {}
    /\ ids = [pid |-> 0, file |-> 0]
    /\ budget = b

\* ------------------------------------------------------------------------
\* Device catalog
\* ------------------------------------------------------------------------
\* lines 55-62: the AudioDevice built for host index i
AudioDevice(i) == [index |-> i, is_default |-> i = host.default,
                   max_output_channels |-> host.channels[i]]

\* lines 53-63, one turn of the loop over the host's device list: the i-th
\* listed device is appended if it has output channels
AppendOutput(cat, i) ==
    IF HasOutput(HostIndexes[i]) THEN Append(cat, HostIndexes[i]) ELSE cat

\* the loop from its i-th turn to its end
RECURSIVE AppendFrom(_, _)
AppendFrom(cat, i) ==
    IF i > NumDevices THEN cat ELSE AppendFrom(AppendOutput(cat, i), i + 1)

\* discover_devices run with no other thread in between and a host that
\* answers the query (as __main__ runs it before the first request, line
\* 668): clear the list, append every device that has output channels. The
\* single steps of a call made by a request handler are GetDevicesBegin,
\* DiscoverQuery and DiscoverAppend
discover_devices ==
    /\ devices' = AppendFrom(<<>>, 1)
    /\ UNCHANGED <<host, active_streams, playback_threads, stop_events, is_playing,
                   max_simultaneous_streams, sessions, calls, req, serverVars>>
    /\ UNCHANGED budget

\* ------------------------------------------------------------------------
\* The stream object of sounddevice, as the engine uses it
\* ------------------------------------------------------------------------
\* stream.active: False on a stream that was never started, has stopped or is closed
StreamActive(s) == sessions[s].stream = "active"

\* ------------------------------------------------------------------------
\* play_on_device, one invocation <<r, d>>
\* ------------------------------------------------------------------------
\* the invocation returns; said is the message it printed (or "started")
Resolve(r, d, res, said) ==
    /\ calls' = Del(calls, <<r, d>>)
    /\ req' = [req EXCEPT ![r].results =
                   Put(@, d, [success |-> res, file |-> calls[<<r, d>>].file,
                              said |-> said])]

\* line 137: the device lookup
DeviceFound(d) == d \in Catalog
\* a busy test that never finds the device busy
AlreadyPlaying_Never(d) == d \in DOMAIN EmptyDict
\* line 142: the busy test
AlreadyPlaying(d) == d \in DOMAIN active_streams
\* a stream limit that is never reached
AtStreamLimit_Never == Cardinality(DOMAIN active_streams) > NumDevices + max_simultaneous_streams
\* line 147: the stream limit
AtStreamLimit == Cardinality(DOMAIN active_streams) >= max_simultaneous_streams

\* lines 137-149: the three checks; each failure returns False
PodCheck(r, d) ==
    /\ <<r, d>> \in DOMAIN calls
    /\ calls[<<r, d>>].pc = "check"
    /\ IF ~DeviceFound(d) THEN Resolve(r, d, FALSE, "not found")
       ELSE IF AlreadyPlaying(d) THEN Resolve(r, d, FALSE, "already playing")
       ELSE IF AtStreamLimit THEN Resolve(r, d, FALSE, "limit reached")
          ELSE /\ calls' = [calls EXCEPT ![<<r, d>>].pc = "create"]
               /\ UNCHANGED req
    /\ UNCHANGED <<engineVars, sessions, serverVars>>
    /\ UNCHANGED budget

NewSid(d) == <<d, Cardinality({s \in DOMAIN sessions : s[1] = d}) + 1>>

\* ------------------------------------------------------------------------
\* The playback worker of session s (play_on_device.playback_thread)
\* ------------------------------------------------------------------------
\* str(device_id), the key the server's device_status dict uses; it differs
\* from every integer device index
Str(d) == 0 - (d + 1)

\* Latest.play_multi_files.status_callback (lines 471-473), applied to the
\* batch table pb; cb = 0 stands for "no status_callback was passed"
status_callback(pb, cb, d, status) ==
    IF cb # 0 /\ cb \in DOMAIN pb
       THEN [pb EXCEPT ![cb].device_status = Put(@, Str(d), status)]
       ELSE pb

Min(a, b) == IF a < b THEN a ELSE b

\* line 156: the channel count the stream is opened with, for a buffer of
\* buf channels on a device with limit max_out
StreamChannels(buf, max_out) == Min(buf, max_out)

\* lines 157-160: the channel count of the data handed to the worker; when
\* the stream has fewer channels than the buffer, a buffer of more than one
\* channel is replaced by np.mean(audio_data, axis=1, keepdims=True)
DataChannels(buf, max_out) ==
    IF StreamChannels(buf, max_out) < buf
       THEN IF buf > 1 THEN 1 ELSE buf
       ELSE buf

\* a downmix that overwrites the caller's array
CallerBuffer_DownmixedInPlace(buf, max_out) == DataChannels(buf, max_out)

\* lines 157-160: the channel count of the caller's array after the call;
\* np.mean returns a new array that is bound to the local name audio_data,
\* the array the caller passed keeps its shape
CallerBuffer(buf, max_out) == buf

\* the invocations of request r share the buffer their caller loaded
\* (play_on_all_devices, lines 277-279): what invocation <<r, d>> leaves of
\* it is what the other invocations of r find
SharedBuffer(cs, r, d) ==
    [c \in DOMAIN cs |->
        IF c[1] = r /\ c # <<r, d>>
           THEN [cs[c] EXCEPT !.buf = CallerBuffer(cs[<<r, d>>].buf,
                                                   AudioDevice(d).max_output_channels)]
           ELSE cs[c]]

\* lines 151-171: create the stop event and register it, open the output
\* stream and register it; a failure to open raises after the event was
\* registered, and the handler of lines 234-236 returns False
PodCreate(r, d) ==
    /\ <<r, d>> \in DOMAIN calls
    /\ calls[<<r, d>>].pc = "create"
    /\ stop_events' = Put(stop_events, d, NewSid(d))
    /\ \E opened \in BOOLEAN :
          /\ MayFail(opened)
          /\ Charge(opened)
          /\ sessions' = Put(sessions, NewSid(d),
                             [dev |-> d, event |-> FALSE,
                              stream |-> IF opened THEN "new" ELSE "none",
                              wpc |-> "none", cb |-> calls[<<r, d>>].cb,
                              batch |-> req[r].pid, file |-> calls[<<r, d>>].file,
                              after |-> calls[<<r, d>>].after,
                              buf |-> calls[<<r, d>>].buf,
                              channels |-> StreamChannels(calls[<<r, d>>].buf,
                                              AudioDevice(d).max_output_channels),
                              data |-> DataChannels(calls[<<r, d>>].buf,
                                              AudioDevice(d).max_output_channels),
                              stopped |-> FALSE])
          /\ IF opened
                THEN /\ active_streams' = Put(active_streams, d, NewSid(d))
                     /\ calls' = [SharedBuffer(calls, r, d) EXCEPT
                                      ![<<r, d>>].pc = "thread",
                                      ![<<r, d>>].sid = NewSid(d)]
                     /\ UNCHANGED req
                ELSE /\ Resolve(r, d, FALSE, "error")
                     /\ UNCHANGED active_streams
    /\ UNCHANGED <<host, devices, playback_threads, is_playing,
                   max_simultaneous_streams, active_playbacks, disk>>
    /\ UNCHANGED ids

\* lines 228-232: register the worker thread, start it, return True
PodThread(r, d) ==
    /\ <<r, d>> \in DOMAIN calls
    /\ calls[<<r, d>>].pc = "thread"
    /\ LET s == calls[<<r, d>>].sid IN
          /\ playback_threads' = Put(playback_threads, d, s)
          /\ sessions' = [sessions EXCEPT ![s].wpc = "start"]
    /\ Resolve(r, d, TRUE, "started")
    /\ UNCHANGED <<host, devices, active_streams, stop_events, is_playing,
                   max_simultaneous_streams, serverVars>>
    /\ UNCHANGED budget

\* lines 176-179: report "Playing", then stream.start(); start raises on a
\* stream that was closed meanwhile, or when the backend fails; the except
\* branch (lines 212-217) then reports "Error"
WorkerStart(s) ==
    /\ s \in DOMAIN sessions
    /\ sessions[s].wpc = "start"
    /\ LET d == sessions[s].dev
           cb == sessions[s].cb
           playing == status_callback(active_playbacks, cb, d, "Playing") IN
       \E ok \in BOOLEAN :
          /\ MayFail(ok)
          /\ Charge(ok)
          /\ IF ok /\ sessions[s].stream = "new"
                THEN /\ sessions' = [sessions EXCEPT ![s].stream = "active",
                                                     ![s].wpc = "write"]
                     /\ active_playbacks' = playing
                ELSE /\ sessions' = [sessions EXCEPT ![s].wpc = "failed"]
                     /\ active_playbacks' = status_callback(playing, cb, d, "Error")
    /\ UNCHANGED <<engineVars, calls, req, disk>>
    /\ UNCHANGED ids

\* line 180: stream.write(audio_data), a blocking write of the whole buffer;
\* it raises when the stream was stopped or closed under it, on an I/O
\* error, or when the data does not have the stream's channel count
\* (ValueError), and the except branch reports "Error"
WorkerWrite(s) ==
    /\ s \in DOMAIN sessions
    /\ sessions[s].wpc = "write"
    /\ \E ok \in BOOLEAN :
          /\ MayFail(ok)
          /\ Charge(ok)
          /\ IF ok /\ StreamActive(s) /\ sessions[s].data = sessions[s].channels
                THEN /\ sessions' = [sessions EXCEPT ![s].wpc = "wait"]
                     /\ UNCHANGED active_playbacks
                ELSE /\ sessions' = [sessions EXCEPT ![s].wpc = "failed"]
                     /\ active_playbacks' =
                           status_callback(active_playbacks, sessions[s].cb,
                                           sessions[s].dev, "Error")
    /\ UNCHANGED <<engineVars, calls, req, disk>>
    /\ UNCHANGED ids

\* the backend: once the whole buffer is written the stream plays it out and
\* then reports itself inactive ("Stream finished naturally", line 190)
Drain(s) ==
    /\ s \in DOMAIN sessions
    /\ sessions[s].wpc = "wait"
    /\ StreamActive(s)
    /\ sessions' = [sessions EXCEPT ![s].stream = "inactive"]
    /\ UNCHANGED <<engineVars, calls, req, serverVars>>
    /\ UNCHANGED budget

\* a polling loop that also ends when the stream has played out
LeavesWaitLoop_WhenDrained(s) == sessions[s].event \/ ~StreamActive(s)

\* line 184: the condition under which the worker leaves its polling loop
LeavesWaitLoop(s) == sessions[s].event

\* what stream.stop() / stream.close() leave behind; an error leaves the
\* stream as it was
AfterStop(st, ok) == IF st = "active" /\ ok THEN "inactive" ELSE st
AfterClose(st, ok) == IF ok THEN "closed" ELSE st

\* lines 184-210: the loop is left, the stream is stopped if it is active and
\* closed (errors are printed), "Finished" is reported
WorkerExit(s) ==
    /\ s \in DOMAIN sessions
    /\ sessions[s].wpc = "wait"
    /\ LeavesWaitLoop(s)
    /\ \E stopOk \in BOOLEAN, closeOk \in BOOLEAN :
          /\ MayFail(stopOk /\ closeOk)
          /\ Charge(stopOk /\ closeOk)
          /\ sessions' = [sessions EXCEPT
                             ![s].stream = AfterClose(AfterStop(@, stopOk), closeOk),
                             ![s].wpc = "cleanup"]
    /\ active_playbacks' = status_callback(active_playbacks, sessions[s].cb,
                                           sessions[s].dev, "Finished")
    /\ UNCHANGED <<engineVars, calls, req, disk>>
    /\ UNCHANGED ids

\* a worker that leaves the registry alone after an error
WorkerCleanup_KeepsFailed(s) ==
    /\ s \in DOMAIN sessions
    /\ sessions[s].wpc \in {"cleanup", "failed"}
    /\ active_streams' = IF sessions[s].wpc = "failed" THEN active_streams
                          ELSE Del(active_streams, sessions[s].dev)
    /\ stop_events' = IF sessions[s].wpc = "failed" THEN stop_events
                        ELSE Del(stop_events, sessions[s].dev)
    /\ sessions' = [sessions EXCEPT
                       ![s].wpc = IF @ = "failed" THEN "gone" ELSE "done",
                       ![s].event = TRUE, ![s].cb = 0, ![s].batch = 0, ![s].file = 0,
                       ![s].after = FALSE,
                       ![s].stopped = IF sessions[s].wpc = "failed" THEN @ ELSE TRUE]
    /\ UNCHANGED <<host, devices, playback_threads, is_playing, max_simultaneous_streams,
                   calls, req, serverVars>>
    /\ UNCHANGED budget

\* lines 218-226: the finally block, reached after "Finished" (wpc "cleanup")
\* and after "Error" (wpc "failed"), deletes whatever is registered under the
\* worker's device index; the thread ends ("done", or "gone" after an error;
\* its event and callback are not referenced any more)
WorkerCleanup(s) ==
    /\ s \in DOMAIN sessions
    /\ sessions[s].wpc \in {"cleanup", "failed"}
    /\ active_streams' = Del(active_streams, sessions[s].dev)
    /\ stop_events' = Del(stop_events, sessions[s].dev)
    /\ sessions' = [sessions EXCEPT
                       ![s].wpc = IF @ = "failed" THEN "gone" ELSE "done",
                       ![s].event = TRUE, ![s].cb = 0, ![s].batch = 0, ![s].file = 0,
                       ![s].after = FALSE,
                       ![s].stopped = IF sessions[s].wpc = "failed" THEN @ ELSE TRUE]
    /\ UNCHANGED <<host, devices, playback_threads, is_playing, max_simultaneous_streams,
                   calls, req, serverVars>>
    /\ UNCHANGED budget

\* ------------------------------------------------------------------------
\* stop_all_playback, run by request handler r
\* ------------------------------------------------------------------------
\* an explicit stop is under way: every session that exists now counts as
\* having been asked to stop
MarkStopped(ss) == [s \in DOMAIN ss |-> [ss[s] EXCEPT !.stopped = TRUE]]

\* lines 308-312: the loop over self.stop_events.values() sets every
\* registered stop event; seen is the size of the dict the iterator started on,
\* atcall the sessions whose stream is registered as the call starts
StopSignal(r) ==
    /\ req[r].pc = "signal"
    /\ sessions' = [s \in DOMAIN sessions |->
                      [sessions[s] EXCEPT !.stopped = TRUE,
                                          !.event = @ \/ s \in Range(stop_events)]]
    /\ req' = [req EXCEPT ![r].pc = "signalled",
                          ![r].seen = Cardinality(DOMAIN stop_events),
                          ![r].atcall = Range(active_streams)]
    /\ UNCHANGED <<engineVars, calls, serverVars>>
    /\ UNCHANGED budget

\* a signalling loop that also raises when it started on an empty dict
StopSignalEnd_RaisesOnEmpty(r) ==
    /\ req[r].pc = "signalled"
    /\ sessions' = MarkStopped(sessions)
    /\ req' = IF Cardinality(DOMAIN stop_events) = req[r].seen /\ req[r].seen > 0
                 THEN [req EXCEPT ![r].pc = "streams"]
              ELSE IF req[r].kind = "force_stop"
                 THEN [req EXCEPT ![r].pc = "batches"]
                 ELSE [req EXCEPT ![r] = IdleReq]
    /\ UNCHANGED <<engineVars, calls, serverVars>>
    /\ UNCHANGED budget

\* line 308, the iterator's last step: if the dict changed size while the
\* loop ran, the for statement raises RuntimeError out of stop_all_playback;
\* /api/stop-playback then answers 500 (lines 335-339), /api/force-stop goes
\* on to its batch cleanup (lines 349-353)
StopSignalEnd(r) ==
    /\ req[r].pc = "signalled"
    /\ sessions' = MarkStopped(sessions)
    /\ req' = IF Cardinality(DOMAIN stop_events) = req[r].seen
                 THEN [req EXCEPT ![r].pc = "streams"]
              ELSE IF req[r].kind = "force_stop"
                 THEN [req EXCEPT ![r].pc = "batches"]
                 ELSE [req EXCEPT ![r] = IdleReq]
    /\ UNCHANGED <<engineVars, calls, serverVars>>
    /\ UNCHANGED budget

\* lines 318-337 for one stream: stop it if active (abort if stop raises),
\* then close it; every error is printed and swallowed
AfterTeardown(st, stopOk, abortOk, closeOk) ==
    AfterClose(IF st = "active" /\ ~stopOk /\ abortOk THEN "inactive"
                                                        ELSE AfterStop(st, stopOk),
               closeOk)

\* the states one stream can be left in by lines 318-337
TeardownOutcomes(st) ==
    {AfterTeardown(st, f[1], f[2], f[3]) : f \in BOOLEAN \X BOOLEAN \X BOOLEAN}

\* lines 315-344: handle every registered stream and drop its entry
StopStreams(r) ==
    /\ req[r].pc = "streams"
    /\ \E out \in [Range(active_streams) -> {"new", "active", "inactive", "closed"}] :
          /\ \A s \in DOMAIN out : out[s] \in TeardownOutcomes(sessions[s].stream)
          /\ LET clean == \A s \in DOMAIN out :
                             out[s] = AfterTeardown(sessions[s].stream, TRUE, TRUE, TRUE) IN
             /\ MayFail(clean)
             /\ Charge(clean)
             /\ req' = [req EXCEPT ![r].pc = "clear", ![r].err = ~clean]
          /\ sessions' = [s \in DOMAIN sessions |->
                            [sessions[s] EXCEPT
                                !.stopped = TRUE,
                                !.stream = IF s \in DOMAIN out THEN out[s] ELSE @]]
    /\ active_streams' = EmptyDict
    /\ UNCHANGED <<host, devices, playback_threads, stop_events, is_playing,
                   max_simultaneous_streams, calls, active_playbacks, disk>>
    /\ UNCHANGED ids

\* what lines 368-370 leave in each of the three dicts
ClearedRegistry == EmptyDict

\* a stop that gives up when a teardown failed
StopClear_UnlessError(r) ==
    /\ req[r].pc = "clear"
    /\ sessions' = MarkStopped(sessions)
    /\ IF req[r].err
          THEN UNCHANGED <<active_streams, playback_threads, stop_events, is_playing>>
          ELSE /\ active_streams' = ClearedRegistry
               /\ playback_threads' = ClearedRegistry
               /\ stop_events' = ClearedRegistry
               /\ is_playing' = FALSE
    /\ req' = [req EXCEPT ![r].pc = "batches"]
    /\ UNCHANGED <<host, devices, max_simultaneous_streams, calls, serverVars>>
    /\ UNCHANGED budget

\* lines 347-371: thread.join(timeout=0.2) for every registered worker (a
\* join gives up after its timeout, so nothing here waits for a worker),
\* sd.stop(), clear the three dicts, is_playing = False
StopClear(r) ==
    /\ req[r].pc = "clear"
    /\ sessions' = MarkStopped(sessions)
    /\ active_streams' = ClearedRegistry
    /\ playback_threads' = ClearedRegistry
    /\ stop_events' = ClearedRegistry
    /\ is_playing' = FALSE
    /\ req' = [req EXCEPT ![r].pc = "batches"]
    /\ UNCHANGED <<host, devices, max_simultaneous_streams, calls, serverVars>>
    /\ UNCHANGED budget

\* ------------------------------------------------------------------------
\* get_device_status
\* ------------------------------------------------------------------------
\* a status that counts a stream that was never started as no session
DeviceState_StartedOnly(d) ==
    IF d \in DOMAIN active_streams /\ sessions[active_streams[d]].stream # "new"
       THEN IF StreamActive(active_streams[d]) THEN "Playing" ELSE "Finished"
       ELSE "Idle"

\* lines 379-386, for one catalog device
DeviceState(d) ==
    IF d \in DOMAIN active_streams
       THEN IF StreamActive(active_streams[d]) THEN "Playing" ELSE "Finished"
       ELSE "Idle"

\* lines 375-387
get_device_status == [d \in Catalog |-> DeviceState(d)]

\* ------------------------------------------------------------------------
\* Request handlers of the server (Latest.py)
\* ------------------------------------------------------------------------
InFlight(r) == {c \in DOMAIN calls : c[1] = r}

\* invocations that have not created their objects yet, and tasks of
\* play-multi requests that have not been started yet
Pending ==
    Cardinality({c \in DOMAIN calls : calls[c].pc \in {"check", "create"}})
    + Cardinality({rk \in RequestIds \X (1 .. MaxFiles) :
                      /\ req[rk[1]].kind = "play_multi"
                      /\ rk[2] >= req[rk[1]].i
                      /\ rk[2] <= Len(req[rk[1]].tasks)})
CanStart(n) == Cardinality(DOMAIN sessions) + Pending + n <= budget.sessions

NoSession == <<>>
\* audio_data.shape[1] of the buffers the server's requests load: the files
\* of these runs are stereo
FileChannels == 2
\* a call for device d is made after a stop: no stop request is in progress,
\* no stream is registered under d, and the worker of a session on d that was
\* asked to stop has not ended yet
AfterStopOn(d) ==
    /\ \A q \in RequestIds : req[q].kind \notin {"stop", "force_stop"}
    /\ d \notin DOMAIN active_streams
    /\ \E o \in DOMAIN sessions : /\ sessions[o].dev = d
                                  /\ sessions[o].stopped
                                  /\ sessions[o].wpc \notin {"none", "done", "gone"}
Submit(cs, r, d, cb, file) ==
    Put(cs, <<r, d>>, [pc |-> "check", sid |-> NoSession, cb |-> cb, file |-> file,
                       after |-> AfterStopOn(d), buf |-> FileChannels])

\* a new request is served by the first free handler thread
FreeSlot(r) == req[r].kind = "none" /\ \A q \in RequestIds : q < r => req[q].kind # "none"

\* an index no device of the host has
UnknownDevice == NumDevices

\* play_on_device called with a buffer of c channels (the engine used as a
\* library, or a file of c channels uploaded to /api/play-device)
PlayBufferBegin(r, d, c) ==
    /\ FreeSlot(r)
    /\ MayAccept
    /\ CanStart(1)
    /\ budget' = Accept
    /\ req' = [req EXCEPT ![r] = [IdleReq EXCEPT !.kind = "play_device", !.pc = "call"]]
    /\ calls' = [Submit(calls, r, d, 0, 0) EXCEPT ![<<r, d>>].buf = c]
    /\ UNCHANGED <<engineVars, sessions, serverVars>>

\* /api/play-device (lines 152-219): play_on_device(int(device_id), ...)
PlayDeviceBegin(r, d) ==
    /\ FreeSlot(r)
    /\ MayAccept
    /\ CanStart(1)
    /\ budget' = Accept
    /\ req' = [req EXCEPT ![r] = [IdleReq EXCEPT !.kind = "play_device", !.pc = "call"]]
    /\ calls' = Submit(calls, r, d, 0, 0)
    /\ UNCHANGED <<engineVars, sessions, serverVars>>

PlayDeviceReturn(r) ==
    /\ req[r].kind = "play_device"
    /\ InFlight(r) = {}
    /\ req' = [req EXCEPT ![r] = IdleReq]
    /\ UNCHANGED <<engineVars, sessions, calls, serverVars>>
    /\ UNCHANGED budget

\* ---- /api/devices (Latest.py lines 43-72), which runs discover_devices ----
\* line 47 of both files: the handler calls discover_devices, which clears
\* the list in place
GetDevicesBegin(r) ==
    /\ FreeSlot(r)
    /\ MayAccept
    /\ budget' = Accept
    /\ devices' = <<>>
    /\ req' = [req EXCEPT ![r] = [IdleReq EXCEPT !.kind = "devices", !.pc = "query"]]
    /\ UNCHANGED <<host, active_streams, playback_threads, stop_events, is_playing,
                   max_simultaneous_streams, sessions, calls, serverVars>>

\* multi_device_audio.py lines 50-51: sd.query_devices() and the default
\* output; an exception is printed (lines 69-70) and the list returned as it is
DiscoverQuery(r) ==
    /\ req[r].kind = "devices"
    /\ req[r].pc = "query"
    /\ \E ok \in BOOLEAN :
          /\ MayFail(ok)
          /\ Charge(ok)
          /\ req' = IF ok THEN [req EXCEPT ![r].pc = "append", ![r].i = 1]
                          ELSE [req EXCEPT ![r].pc = "return", ![r].err = TRUE]
    /\ UNCHANGED <<engineVars, sessions, calls, serverVars>>

\* lines 53-63, one turn of the loop
DiscoverAppend(r) ==
    /\ req[r].kind = "devices"
    /\ req[r].pc = "append"
    /\ devices' = AppendOutput(devices, req[r].i)
    /\ req' = [req EXCEPT ![r].i = @ + 1,
                          ![r].pc = IF req[r].i = NumDevices THEN "return" ELSE @]
    /\ UNCHANGED <<host, active_streams, playback_threads, stop_events, is_playing,
                   max_simultaneous_streams, sessions, calls, serverVars>>
    /\ UNCHANGED budget

\* line 72 and Latest.py lines 48-66: the list is returned and the answer is
\* built from it
GetDevicesReturn(r) ==
    /\ req[r].kind = "devices"
    /\ req[r].pc = "return"
    /\ req' = [req EXCEPT ![r] = IdleReq]
    /\ UNCHANGED <<engineVars, sessions, calls, serverVars>>
    /\ UNCHANGED budget

\* ---- get_device_status step by step, as /api/playback-status runs it
\* (Latest.py line 529) next to other threads ----
\* the entry the loop writes for one device
StatusEntry(text) == [success |-> TRUE, file |-> 0, said |-> text]

\* the loop of lines 378-386 moves on to its next device
NextDevice(q) ==
    [q EXCEPT !.i = @ + 1, !.pc = IF q.i >= Len(devices) THEN "return" ELSE "test"]

\* line 377: status = {}
StatusBegin(r) ==
    /\ FreeSlot(r)
    /\ MayAccept
    /\ budget' = Accept
    /\ req' = [req EXCEPT ![r] = [IdleReq EXCEPT
                  !.kind = "status", !.i = 1,
                  !.pc = IF Len(devices) = 0 THEN "return" ELSE "test"]]
    /\ UNCHANGED <<engineVars, sessions, calls, serverVars>>

\* line 379: device.index in self.active_streams; line 386 when it is not
StatusTest(r) ==
    /\ req[r].kind = "status"
    /\ req[r].pc = "test"
    /\ LET d == devices[req[r].i] IN
       req' = IF d \in DOMAIN active_streams
                 THEN [req EXCEPT ![r].pc = "read"]
                 ELSE [req EXCEPT ![r] =
                          NextDevice([req[r] EXCEPT !.results = Put(@, d, StatusEntry("Idle"))])]
    /\ UNCHANGED <<engineVars, sessions, calls, serverVars>>
    /\ UNCHANGED budget

\* lines 380-384: self.active_streams[device.index], a KeyError when the
\* entry has been deleted since the test (the handler then answers 500,
\* Latest.py lines 557-561), then stream.active
StatusRead(r) ==
    /\ req[r].kind = "status"
    /\ req[r].pc = "read"
    /\ LET d == devices[req[r].i] IN
       req' = IF d \notin DOMAIN active_streams
                 THEN [req EXCEPT ![r].err = TRUE, ![r].pc = "return"]
                 ELSE [req EXCEPT ![r] =
                          NextDevice([req[r] EXCEPT !.results =
                             Put(@, d, StatusEntry(IF StreamActive(active_streams[d])
                                                      THEN "Playing" ELSE "Finished"))])]
    /\ UNCHANGED <<engineVars, sessions, calls, serverVars>>
    /\ UNCHANGED budget

\* line 387, or the error answer
StatusReturn(r) ==
    /\ req[r].kind = "status"
    /\ req[r].pc = "return"
    /\ req' = [req EXCEPT ![r] = IdleReq]
    /\ UNCHANGED <<engineVars, sessions, calls, serverVars>>
    /\ UNCHANGED budget

\* a play-all that starts every catalog device, whatever the probe said
PlayAllBegin_NoProbe(r) ==
    /\ FreeSlot(r)
    /\ MayAccept
    /\ ids.pid < MaxBatches
    /\ LET f == ids.file + 1
           p == ids.pid + 1 IN
       /\ disk' = disk \cup {f}
       /\ \E loads \in BOOLEAN, working \in SUBSET Catalog :
             /\ MayFail(loads /\ working = Catalog)
             /\ ids' = [pid |-> p, file |-> f]
             /\ budget' = [Accept EXCEPT !.faults =
                               IF loads /\ working = Catalog THEN @ ELSE @ - 1]
             /\ IF loads /\ working # {}
                   THEN /\ CanStart(Cardinality(Catalog))
                        /\ req' = [req EXCEPT ![r] = [IdleReq EXCEPT
                                      !.kind = "play_all", !.pc = "fanout", !.pid = p,
                                      !.probed = working,
                                      !.tasks = <<[file |-> f, dev |-> 0, idx |-> 0]>>]]
                        /\ calls' = [c \in (DOMAIN calls) \cup ({r} \X Catalog) |->
                                       IF c \in DOMAIN calls THEN calls[c]
                                       ELSE [pc |-> "check", sid |-> NoSession, cb |-> 0, file |-> 0,
                                             after |-> AfterStopOn(c[2]), buf |-> FileChannels]]
                   ELSE UNCHANGED <<req, calls>>
    /\ UNCHANGED <<engineVars, sessions, active_playbacks>>

\* ---- /api/play-all (lines 222-294) and play_on_all_devices (247-301) ----
\* what sd.play / sd.wait can do with the probe tone
ProbeOutcomes == {"played", "raised"}

\* a probe that lets the backend's exception out
test_device_Unhandled(out) == [raised |-> out # "played", value |-> out = "played"]

\* multi_device_audio.py lines 74-93, for backend outcome out: True when the
\* tone played, False from the except branch; no exception leaves the call
test_device(out) == [raised |-> FALSE, value |-> out = "played"]

\* lines 259-269: the probing loop over the catalog, for the outcomes out of
\* the single probes; an exception that left test_device would end
\* play_on_all_devices in its outer except (lines 299-301)
ProbeAborts(out) == \E d \in DOMAIN out : test_device(out[d]).raised
WorkingDevices(out) == {d \in DOMAIN out : test_device(out[d]).value}

\* lines 247-255: temp file saved, playback id generated; play_on_all_devices
\* returns {} without a catalog, when the file does not load, and when no
\* device passes test_device; otherwise it submits one play_on_device per
\* working device to the thread pool. loads: the file loads; out: what the
\* backend does with the probe of each catalog device
PlayAllRequest(r, loads, out) ==
    /\ FreeSlot(r)
    /\ MayAccept
    /\ ids.pid < MaxBatches
    /\ LET f == ids.file + 1
           p == ids.pid + 1
           working == IF ProbeAborts(out) THEN {} ELSE WorkingDevices(out)
           clean == loads /\ \A d \in DOMAIN out : out[d] = "played" IN
       /\ disk' = disk \cup {f}
       /\ MayFail(clean)
       /\ ids' = [pid |-> p, file |-> f]
       /\ budget' = [Accept EXCEPT !.faults = IF clean THEN @ ELSE @ - 1]
       /\ IF loads /\ working # {}
             THEN /\ CanStart(Cardinality(working))
                  /\ req' = [req EXCEPT ![r] = [IdleReq EXCEPT
                                !.kind = "play_all", !.pc = "fanout", !.pid = p,
                                !.probed = working,
                                !.tasks = <<[file |-> f, dev |-> 0, idx |-> 0]>>]]
                  /\ calls' = [c \in (DOMAIN calls) \cup ({r} \X working) |->
                                 IF c \in DOMAIN calls THEN calls[c]
                                 ELSE [pc |-> "check", sid |-> NoSession, cb |-> 0, file |-> 0,
                                       after |-> AfterStopOn(c[2]), buf |-> FileChannels]]
             ELSE UNCHANGED <<req, calls>>
    /\ UNCHANGED <<engineVars, sessions, active_playbacks>>

PlayAllBegin(r) ==
    \E loads \in BOOLEAN, out \in [Catalog -> ProbeOutcomes] : PlayAllRequest(r, loads, out)

\* test_all_devices (lines 95-108) for the probe outcomes out: one result per
\* catalog device; an exception that left test_device would leave the loop
TestAllRequest(r, out) ==
    /\ FreeSlot(r)
    /\ MayAccept
    /\ MayFail(\A d \in DOMAIN out : out[d] = "played")
    /\ budget' = [Accept EXCEPT !.faults =
                      IF \A d \in DOMAIN out : out[d] = "played" THEN @ ELSE @ - 1]
    /\ req' = [req EXCEPT ![r] =
                  [IdleReq EXCEPT
                      !.kind = "test_all", !.pc = "return",
                      !.err = ProbeAborts(out),
                      !.results = IF ProbeAborts(out) THEN EmptyDict
                                  ELSE [d \in DOMAIN out |->
                                          [success |-> test_device(out[d]).value,
                                           file |-> 0, said |-> "tested"]]]]
    /\ UNCHANGED <<engineVars, sessions, calls, serverVars>>

TestAllBegin(r) ==
    \E out \in [Catalog -> ProbeOutcomes] : TestAllRequest(r, out)

\* line 108: the results are returned
TestAllReturn(r) ==
    /\ req[r].kind = "test_all"
    /\ req' = [req EXCEPT ![r] = IdleReq]
    /\ UNCHANGED <<engineVars, sessions, calls, serverVars>>
    /\ UNCHANGED budget

\* lines 283-296: every future has resolved; self.is_playing = True
PlayAllFlag(r) ==
    /\ req[r].kind = "play_all"
    /\ req[r].pc = "fanout"
    /\ InFlight(r) = {}
    /\ is_playing' = TRUE
    /\ req' = [req EXCEPT ![r].pc = "store"]
    /\ UNCHANGED <<host, devices, active_streams, playback_threads, stop_events,
                   max_simultaneous_streams, sessions, calls, serverVars>>
    /\ UNCHANGED budget

\* lines 260-277: the results are not empty, the batch is stored
PlayAllStore(r) ==
    /\ req[r].kind = "play_all"
    /\ req[r].pc = "store"
    /\ active_playbacks' = Put(active_playbacks, req[r].pid,
                               [type |-> "single",
                                files |-> {req[r].tasks[1].file},
                                results |-> req[r].results,
                                device_status |-> EmptyDict,
                                old |-> FALSE])
    /\ req' = [req EXCEPT ![r] = IdleReq]
    /\ UNCHANGED <<engineVars, sessions, calls, disk, ids>>
    /\ UNCHANGED budget

\* ---- /api/play-multi-files (lines 397-522) ----
FileNames == {"ok", "empty", "bad"}   \* allowed name, '' , extension not allowed

\* lines 434-458: the validation loop over the uploaded files, from position
\* i on; mappings.get(str(i)) is looked up with the 0-based position
RECURSIVE ValidateFiles(_, _, _, _, _)
ValidateFiles(files, mappings, i, lastFile, tasks) ==
    IF i > Len(files)
       THEN [ok |-> TRUE, tasks |-> tasks, file |-> lastFile]
    ELSE IF files[i] = "empty"
       THEN ValidateFiles(files, mappings, i + 1, lastFile, tasks)
    ELSE IF files[i] = "bad"
       THEN [ok |-> FALSE, tasks |-> tasks, file |-> lastFile]
    ELSE IF (i - 1) \notin DOMAIN mappings \/ mappings[i - 1] = 0
       THEN ValidateFiles(files, mappings, i + 1, lastFile, tasks)
    ELSE ValidateFiles(files, mappings, i + 1, lastFile + 1,
                       Append(tasks, [file |-> lastFile + 1, dev |-> mappings[i - 1],
                                      idx |-> i]))

TaskFiles(tasks) == {tasks[k].file : k \in 1 .. Len(tasks)}

\* the requests a client can send: the uploaded files, and the JSON object
\* device_mappings (position of a file -> device index)
FileInputs == UNION {[1 .. n -> FileNames] : n \in 1 .. MaxFiles}
MappingInputs == UNION {[K -> DeviceIds] : K \in SUBSET (0 .. (MaxFiles - 1))}

\* line 424: len(files) != len(mappings)
LengthsDiffer(files, mappings) == Len(files) # Cardinality(DOMAIN mappings)

\* a handler thread takes a play-multi request
PlayMultiAccepted(r) ==
    /\ FreeSlot(r)
    /\ MayAccept
    /\ ids.pid < MaxBatches

\* a handler that saves the uploads before it compares the lengths
PlayMultiRequest_SavesFirst(r, files, mappings) ==
    /\ PlayMultiAccepted(r)
    /\ LET v == ValidateFiles(files, [k \in 0 .. (Len(files) - 1) |-> 1], 1, ids.file, <<>>) IN
       IF LengthsDiffer(files, mappings)
          THEN /\ req' = [req EXCEPT ![r] = [IdleReq EXCEPT !.kind = "play_multi",
                                                            !.pc = "rejected"]]
               /\ disk' = disk \cup TaskFiles(v.tasks)
               /\ ids' = [ids EXCEPT !.file = v.file]
          ELSE UNCHANGED <<req, disk, ids>>
    /\ budget' = Accept
    /\ UNCHANGED <<engineVars, sessions, calls, active_playbacks>>

\* lines 424-468, for the uploaded files and the device_mappings of one
\* request: reject a length mismatch (the answer is sent by PlayMultiReject),
\* validate, save the temp files, generate the playback id
PlayMultiRequest(r, files, mappings) ==
    /\ PlayMultiAccepted(r)
    /\ IF LengthsDiffer(files, mappings)
          THEN /\ req' = [req EXCEPT ![r] = [IdleReq EXCEPT !.kind = "play_multi",
                                                            !.pc = "rejected"]]
               /\ UNCHANGED <<disk, ids>>
          ELSE LET v == ValidateFiles(files, mappings, 1, ids.file, <<>>) IN
               /\ disk' = disk \cup TaskFiles(v.tasks)
               /\ IF v.ok /\ v.tasks # <<>>
                     THEN /\ CanStart(Len(v.tasks))
                          /\ ids' = [pid |-> ids.pid + 1, file |-> v.file]
                          /\ req' = [req EXCEPT ![r] = [IdleReq EXCEPT
                                        !.kind = "play_multi", !.pc = "task",
                                        !.pid = ids.pid + 1, !.tasks = v.tasks,
                                        !.i = 1]]
                     ELSE /\ ids' = [ids EXCEPT !.file = v.file]
                          /\ UNCHANGED req
    /\ budget' = Accept
    /\ UNCHANGED <<engineVars, sessions, calls, active_playbacks>>

PlayMultiBegin(r) ==
    /\ PlayMultiAccepted(r)
    /\ \E files \in FileInputs, mappings \in MappingInputs :
          PlayMultiRequest(r, files, mappings)

\* lines 424-428: the answer 400 'Number of files must match number of
\* device mappings'
PlayMultiReject(r) ==
    /\ req[r].kind = "play_multi"
    /\ req[r].pc = "rejected"
    /\ req' = [req EXCEPT ![r] = IdleReq]
    /\ UNCHANGED <<engineVars, sessions, calls, serverVars>>
    /\ UNCHANGED budget

\* a task loop that gives the request up when a file does not load
PlayMultiTask_AbortsOnError(r) ==
    /\ req[r].kind = "play_multi"
    /\ req[r].pc = "task"
    /\ InFlight(r) = {}
    /\ req[r].i <= Len(req[r].tasks)
    /\ LET t == req[r].tasks[req[r].i] IN
       \E loads \in BOOLEAN :
          /\ MayFail(loads)
          /\ Charge(loads)
          /\ IF loads
                THEN /\ calls' = Submit(calls, r, t.dev, req[r].pid, t.file)
                     /\ req' = [req EXCEPT ![r].i = @ + 1]
                ELSE /\ req' = [req EXCEPT ![r] = IdleReq]
                     /\ UNCHANGED calls
    /\ UNCHANGED <<engineVars, sessions, active_playbacks, disk>>
    /\ UNCHANGED ids

\* a task loop that plays the first file of the request on every device
PlayMultiTask_FirstFile(r) ==
    /\ req[r].kind = "play_multi"
    /\ req[r].pc = "task"
    /\ InFlight(r) = {}
    /\ req[r].i <= Len(req[r].tasks)
    /\ LET t == req[r].tasks[req[r].i] IN
       \E loads \in BOOLEAN :
          /\ MayFail(loads)
          /\ Charge(loads)
          /\ IF loads
                THEN /\ calls' = Submit(calls, r, t.dev, req[r].pid, req[r].tasks[1].file)
                     /\ req' = [req EXCEPT ![r].i = @ + 1]
                ELSE /\ req' = [req EXCEPT ![r].i = @ + 1,
                                           ![r].results = Put(@, t.dev,
                                                [success |-> FALSE, file |-> t.file,
                                                 said |-> "error"])]
                     /\ UNCHANGED calls
    /\ UNCHANGED <<engineVars, sessions, active_playbacks, disk>>
    /\ UNCHANGED ids

\* lines 475-496, one task: load the file (a failure is recorded in the
\* task's slot), else play_on_device with the batch's status callback
PlayMultiTask(r) ==
    /\ req[r].kind = "play_multi"
    /\ req[r].pc = "task"
    /\ InFlight(r) = {}
    /\ req[r].i <= Len(req[r].tasks)
    /\ LET t == req[r].tasks[req[r].i] IN
       \E loads \in BOOLEAN :
          /\ MayFail(loads)
          /\ Charge(loads)
          /\ IF loads
                THEN /\ calls' = Submit(calls, r, t.dev, req[r].pid, t.file)
                     /\ req' = [req EXCEPT ![r].i = @ + 1]
                ELSE /\ req' = [req EXCEPT ![r].i = @ + 1,
                                           ![r].results = Put(@, t.dev,
                                                [success |-> FALSE, file |-> t.file,
                                                 said |-> "error"])]
                     /\ UNCHANGED calls
    /\ UNCHANGED <<engineVars, sessions, active_playbacks, disk>>
    /\ UNCHANGED ids

\* line 504: the initial device_status, 'Playing' for every task whose slot
\* reports success
InitialDeviceStatus(tasks, results) ==
    LET ok == {k \in 1 .. Len(tasks) :
                  tasks[k].dev \in DOMAIN results /\ results[tasks[k].dev].success} IN
    [key \in {Str(tasks[k].dev) : k \in ok} |-> "Playing"]

\* lines 498-516: store the batch
PlayMultiStore(r) ==
    /\ req[r].kind = "play_multi"
    /\ req[r].pc = "task"
    /\ InFlight(r) = {}
    /\ req[r].i > Len(req[r].tasks)
    /\ active_playbacks' = Put(active_playbacks, req[r].pid,
                               [type |-> "multi",
                                files |-> TaskFiles(req[r].tasks),
                                results |-> req[r].results,
                                device_status |->
                                    InitialDeviceStatus(req[r].tasks, req[r].results),
                                old |-> FALSE])
    /\ req' = [req EXCEPT ![r] = IdleReq]
    /\ UNCHANGED <<engineVars, sessions, calls, disk, ids>>
    /\ UNCHANGED budget

\* ---- /api/stop-playback (lines 297-339) ----
\* a play-all or play-multi request whose playback id is p has answered
Returned(p) ==
    /\ p \in 1 .. ids.pid
    /\ \A r \in RequestIds : ~(req[r].kind \in {"play_all", "play_multi"} /\ req[r].pid = p)

\* the playback_id values a client can send: none (0), an id no batch has,
\* or an id (a uuid4) it was given in an answer
UnknownBatch == MaxBatches + 1
ClientIds == {0, UnknownBatch} \cup {p \in 1 .. MaxBatches : Returned(p)}

StopBegin(r, pid) ==
    /\ FreeSlot(r)
    /\ MayAccept
    /\ pid \in ClientIds
    /\ budget' = Accept
    /\ req' = [req EXCEPT ![r] = [IdleReq EXCEPT !.kind = "stop", !.pc = "signal",
                                                 !.pid = pid]]
    /\ UNCHANGED <<engineVars, sessions, calls, active_playbacks, disk>>
    /\ UNCHANGED ids

\* the files a cleanup that reads info['file_path'] unlinks: a multi-file
\* record has no such key, the KeyError is swallowed by the bare except
FilePathOf(info) == IF info.type = "single" THEN info.files ELSE {}

\* a stop that drops the named batch only
StopBatches_NamedOnly(r) ==
    /\ req[r].kind = "stop"
    /\ req[r].pc = "batches"
    /\ LET gone == IF req[r].pid = 0 THEN DOMAIN active_playbacks
                   ELSE {req[r].pid} \cap DOMAIN active_playbacks IN
       /\ disk' = disk \ UNION {FilePathOf(active_playbacks[p]) : p \in gone}
       /\ active_playbacks' = [p \in (DOMAIN active_playbacks) \ gone |->
                                  active_playbacks[p]]
    /\ req' = [req EXCEPT ![r] = IdleReq]
    /\ UNCHANGED <<engineVars, sessions, calls, ids>>
    /\ UNCHANGED budget

\* lines 308-328: drop the named batch, then every other batch
StopBatches(r) ==
    /\ req[r].kind = "stop"
    /\ req[r].pc = "batches"
    /\ disk' = disk \ UNION {FilePathOf(active_playbacks[p]) : p \in DOMAIN active_playbacks}
    /\ active_playbacks' = EmptyDict
    /\ req' = [req EXCEPT ![r] = IdleReq]
    /\ UNCHANGED <<engineVars, sessions, calls, ids>>
    /\ UNCHANGED budget

\* ---- /api/force-stop (lines 342-394) ----
ForceStopBegin(r) ==
    /\ FreeSlot(r)
    /\ MayAccept
    /\ budget' = Accept
    /\ req' = [req EXCEPT ![r] = [IdleReq EXCEPT !.kind = "force_stop", !.pc = "signal"]]
    /\ UNCHANGED <<engineVars, sessions, calls, active_playbacks, disk>>
    /\ UNCHANGED ids

\* lines 356-382: unlink 'file_paths' or 'file_path' of every batch (an unlink
\* that fails is printed), delete every batch
ForceStopBatches(r) ==
    /\ req[r].kind = "force_stop"
    /\ req[r].pc = "batches"
    /\ LET owned == UNION {active_playbacks[p].files : p \in DOMAIN active_playbacks} IN
       \E failed \in SUBSET (owned \cap disk) :
          /\ MayFail(failed = {})
          /\ Charge(failed = {})
          /\ disk' = disk \ (owned \ failed)
    /\ active_playbacks' = EmptyDict
    /\ req' = [req EXCEPT ![r] = IdleReq]
    /\ UNCHANGED <<engineVars, sessions, calls>>
    /\ UNCHANGED ids

\* ---- the cleanup thread (lines 635-658) and the clock ----
\* ten minutes pass: every tracked batch is now older than the threshold
Tick ==
    /\ \E p \in DOMAIN active_playbacks : ~active_playbacks[p].old
    /\ active_playbacks' = [p \in DOMAIN active_playbacks |->
                               [active_playbacks[p] EXCEPT !.old = TRUE]]
    /\ UNCHANGED <<engineVars, sessions, calls, req, disk, ids>>
    /\ UNCHANGED budget

\* one pass of cleanup_temp_files: every old batch is removed, its
\* info['file_path'] unlinked
cleanup_temp_files ==
    LET to_remove == {p \in DOMAIN active_playbacks : active_playbacks[p].old} IN
    /\ to_remove # {}
    /\ disk' = disk \ UNION {FilePathOf(active_playbacks[p]) : p \in to_remove}
    /\ active_playbacks' = [p \in (DOMAIN active_playbacks) \ to_remove |->
                               active_playbacks[p]]
    /\ UNCHANGED <<engineVars, sessions, calls, req, ids>>
    /\ UNCHANGED budget

\* ---- /api/playback-status (lines 525-561) ----
\* lines 532-539
multi_file_playing ==
    \E p \in DOMAIN active_playbacks :
       /\ active_playbacks[p].type = "multi"
       /\ "Playing" \in Range(active_playbacks[p].device_status)

\* lines 541-549: entries of a multi-file device_status whose key is a key
\* of the status dict overwrite it
MergedStatus ==
    LET status == get_device_status
        over == {pk \in {q \in DOMAIN active_playbacks :
                            active_playbacks[q].type = "multi"} \X DOMAIN status :
                    pk[2] \in DOMAIN active_playbacks[pk[1]].device_status} IN
    IF multi_file_playing
       THEN [d \in DOMAIN status |->
               IF \E pk \in over : pk[2] = d
                  THEN active_playbacks[(CHOOSE pk \in over : pk[2] = d)[1]].device_status[d]
                  ELSE status[d]]
       ELSE status

\* a response whose is_playing is derived from the devices map
get_playback_status_FromDevices ==
    [devices |-> [k \in {Str(d) : d \in DOMAIN MergedStatus} |->
                     MergedStatus[0 - k - 1]],
     is_playing |-> "Playing" \in Range(MergedStatus)]

\* the response: jsonify writes the integer keys of the devices map as strings
get_playback_status ==
    [devices |-> [k \in {Str(d) : d \in DOMAIN MergedStatus} |->
                     MergedStatus[0 - k - 1]],
     is_playing |-> is_playing \/ multi_file_playing]

\* ------------------------------------------------------------------------
\* the engine alone, driven through /api/play-device and /api/stop-playback
EngineSteps ==
    \/ discover_devices
    \/ \E r \in RequestIds, d \in 0 .. NumDevices : PlayDeviceBegin(r, d)
    \/ \E r \in RequestIds : PlayDeviceReturn(r)
    \/ \E r \in RequestIds : StopBegin(r, 0)
    \/ \E r \in RequestIds : StopSignal(r)
    \/ \E r \in RequestIds : StopSignalEnd(r)
    \/ \E r \in RequestIds : StopStreams(r)
    \/ \E r \in RequestIds : StopClear(r)
    \/ \E r \in RequestIds : StopBatches(r)
    \/ \E c \in RequestIds \X (0 .. NumDevices) : PodCheck(c[1], c[2])
    \/ \E c \in RequestIds \X (0 .. NumDevices) : PodCreate(c[1], c[2])
    \/ \E c \in RequestIds \X (0 .. NumDevices) : PodThread(c[1], c[2])
    \/ \E s \in SessionIds : WorkerStart(s)
    \/ \E s \in SessionIds : WorkerWrite(s)
    \/ \E s \in SessionIds : Drain(s)
    \/ \E s \in SessionIds : WorkerExit(s)
    \/ \E s \in SessionIds : WorkerCleanup(s)

Next ==
    \/ discover_devices
    \/ \E r \in RequestIds, d \in 0 .. NumDevices : PlayDeviceBegin(r, d)
    \/ \E r \in RequestIds : PlayDeviceReturn(r)
    \/ \E r \in RequestIds : PlayAllBegin(r)
    \/ \E r \in RequestIds : PlayAllFlag(r)
    \/ \E r \in RequestIds : PlayAllStore(r)
    \/ \E r \in RequestIds : TestAllBegin(r)
    \/ \E r \in RequestIds : TestAllReturn(r)
    \/ \E r \in RequestIds : PlayMultiBegin(r)
    \/ \E r \in RequestIds : PlayMultiReject(r)
    \/ \E r \in RequestIds : PlayMultiTask(r)
    \/ \E r \in RequestIds : PlayMultiStore(r)
    \/ \E r \in RequestIds, pid \in 0 .. UnknownBatch : StopBegin(r, pid)
    \/ \E r \in RequestIds : ForceStopBegin(r)
    \/ \E r \in RequestIds : StopSignal(r)
    \/ \E r \in RequestIds : StopSignalEnd(r)
    \/ \E r \in RequestIds : StopStreams(r)
    \/ \E r \in RequestIds : StopClear(r)
    \/ \E r \in RequestIds : StopBatches(r)
    \/ \E r \in RequestIds : ForceStopBatches(r)
    \/ \E c \in RequestIds \X (0 .. NumDevices) : PodCheck(c[1], c[2])
    \/ \E c \in RequestIds \X (0 .. NumDevices) : PodCreate(c[1], c[2])
    \/ \E c \in RequestIds \X (0 .. NumDevices) : PodThread(c[1], c[2])
    \/ \E s \in SessionIds : WorkerStart(s)
    \/ \E s \in SessionIds : WorkerWrite(s)
    \/ \E s \in SessionIds : Drain(s)
    \/ \E s \in SessionIds : WorkerExit(s)
    \/ \E s \in SessionIds : WorkerCleanup(s)
    \/ Tick
    \/ cleanup_temp_files

\* hosts: every device has stereo output; device 0 is an input-only device
\* the output devices of host h, in the order sd.query_devices() lists them
Outputs(h) == SelectSeq(HostIndexes, LAMBDA d : h.channels[d] > 0)
StereoHost == [channels |-> [d \in DeviceIds |-> 2], default |-> 0]
HostWithInput == [channels |-> [d \in DeviceIds |-> IF d = 0 THEN 0 ELSE 2], default |-> 1]

\* the server on a host whose device 0 has no output
\* (__main__, line 668, has run discover_devices() before the first request)
Init == Constructed([ops |-> ServerOps, faults |-> MaxFaults, sessions |-> ServerSessions],
                    HostWithInput,
                    Outputs(HostWithInput))
Spec == Init /\ [][Next]_vars

\* the engine on a host where every device has output
EngineInit == Constructed([ops |-> MaxOps, faults |-> MaxFaults, sessions |-> MaxSessions],
                          StereoHost, <<>>)
EngineSpec == EngineInit /\ [][EngineSteps]_vars

\* ------------------------------------------------------------------------
\* Properties
\* ------------------------------------------------------------------------
\* sessions whose buffer was written and played out while no stop was requested
CompletedNaturally ==
    {s \in DOMAIN sessions : /\ sessions[s].wpc = "wait"
                             /\ sessions[s].stream = "inactive"
                             /\ ~sessions[s].stopped}

\* C1: a session that completed naturally, and that no explicit stop has
\* touched, still has its registry entry and its device reports "Finished"
C1_FinishedStaysRegistered ==
    \A s \in CompletedNaturally :
       /\ sessions[s].dev \in DOMAIN active_streams
       /\ sessions[s].dev \in DOMAIN get_device_status
       /\ get_device_status[sessions[s].dev] = "Finished"

\* the record of batch p, if it is tracked, lists device d as a success
ListedAsStarted(p, d) ==
    p \in DOMAIN active_playbacks
       => /\ d \in DOMAIN active_playbacks[p].results
          /\ active_playbacks[p].results[d].success

\* live sessions started by an answered play-all or play-multi request whose
\* answer lists their device as a success, untouched by any explicit stop
StartedByBatch ==
    {s \in DOMAIN sessions :
        /\ sessions[s].batch # 0
        /\ Returned(sessions[s].batch)
        /\ ListedAsStarted(sessions[s].batch, sessions[s].dev)
        /\ sessions[s].wpc \in {"start", "write", "wait"}
        /\ ~sessions[s].stopped}

\* C2: while a session started by a play-all or play-multi request is alive
\* and no stop or force-stop has been requested, the status response says
\* is_playing = true
C2_FlagHeldUntilStop ==
    StartedByBatch # {} => get_playback_status.is_playing

\* C3: play_on_device on a device that has a registry entry returns failure
\* and leaves the three registry dicts and every session as they were
C3_BusyStartRejected ==
    [][\A r \in RequestIds, d \in DeviceIds :
          (PodCheck(r, d) /\ d \in DOMAIN active_streams)
             => /\ d \in DOMAIN req'[r].results
                /\ ~req'[r].results[d].success
                /\ <<r, d>> \notin DOMAIN calls'
                /\ UNCHANGED <<active_streams, stop_events, playback_threads, sessions>>]_vars

\* a call was refused because its device was busy, and the session that made
\* it busy is still registered
C3_Witness ==
    \E r \in RequestIds, d \in DeviceIds :
       /\ d \in DOMAIN req[r].results
       /\ req[r].results[d].said = "already playing"
       /\ d \in DOMAIN active_streams
       /\ d \in DOMAIN playback_threads

\* C4: the registry never holds more sessions than max_simultaneous_streams
C4_CapRespected ==
    Cardinality(DOMAIN active_streams) <= max_simultaneous_streams

\* sessions whose worker met an I/O failure while no stop had been requested
FailedUnstopped ==
    {s \in DOMAIN sessions : sessions[s].wpc \in {"failed", "gone"} /\ ~sessions[s].stopped}

C6_StopAllEmptiesRegistry ==
    [][\A r \in RequestIds :
          StopClear(r)
             => /\ active_streams' = EmptyDict
                /\ playback_threads' = EmptyDict
                /\ stop_events' = EmptyDict
                /\ ~is_playing'
                /\ \A d \in Catalog : DeviceState(d)' = "Idle"]_vars

\* stop_all_playback has returned after a teardown call raised on a
\* registered stream; nothing is registered
C6_Witness ==
    \E r \in RequestIds :
       /\ req[r].pc = "batches"
       /\ req[r].err
       /\ \E s \in DOMAIN sessions : sessions[s].stopped /\ sessions[s].wpc # "none"
       /\ DOMAIN active_streams = {}
       /\ DOMAIN playback_threads = {}
       /\ ~is_playing

\* devices the record of a batch lists as started
BatchDevices(info) == {d \in DOMAIN info.results : info.results[d].success}

\* the tracked batches that started at least one session
StartedBatches ==
    {p \in DOMAIN active_playbacks : BatchDevices(active_playbacks[p]) # {}}

\* C7: when /api/stop-playback names a tracked batch that started a session,
\* then after it the batch is not tracked, none of its temp files is on disk
\* and each of its devices reports "Idle"
C7_StopRemovesBatchAndFiles ==
    [][\A r \in RequestIds :
          (StopBatches(r) /\ req[r].pid \in StartedBatches)
             => /\ req[r].pid \notin DOMAIN active_playbacks'
                /\ active_playbacks[req[r].pid].files \cap disk' = {}
                /\ \A d \in BatchDevices(active_playbacks[req[r].pid]) \cap Catalog :
                      DeviceState(d)' = "Idle"]_vars

\* C8 as stated: /api/stop-playback with the id of a tracked batch leaves
\* every other tracked batch tracked and the sessions of every other batch
\* registered
C8_OnlyNamedBatchStopped ==
    [][\A r \in RequestIds :
          (req[r].kind = "stop" /\ req[r].pid \in DOMAIN active_playbacks)
             => /\ StopBatches(r)
                     => \A q \in (DOMAIN active_playbacks) \ {req[r].pid} :
                           q \in DOMAIN active_playbacks'
                /\ StopStreams(r)
                     => \A d \in DOMAIN active_streams :
                           sessions[active_streams[d]].batch \notin {0, req[r].pid}
                              => d \in DOMAIN active_streams']_vars

\* C8: /api/stop-playback, with or without a batch id, empties the registry
\* and removes every tracked batch
C8_StopStopsEverything ==
    [][\A r \in RequestIds :
          req[r].kind = "stop"
             => /\ StopStreams(r) => active_streams' = EmptyDict
                /\ StopClear(r) => /\ active_streams' = EmptyDict
                                    /\ stop_events' = EmptyDict
                                    /\ playback_threads' = EmptyDict
                /\ StopBatches(r) => active_playbacks' = EmptyDict]_vars

\* a stop that names a tracked batch has torn down a session of another
\* batch, which is still tracked
C8_Witness ==
    \E r \in RequestIds :
       /\ req[r].kind = "stop"
       /\ req[r].pc = "batches"
       /\ req[r].pid \in DOMAIN active_playbacks
       /\ \E s \in DOMAIN sessions :
             /\ sessions[s].batch \in (DOMAIN active_playbacks) \ {req[r].pid}
             /\ sessions[s].stopped
             /\ sessions[s].dev \notin DOMAIN active_streams

C10_StatusCoversCatalog ==
    /\ DOMAIN get_device_status = {d \in DeviceIds : \E k \in 1 .. Len(devices) : devices[k] = d}
    /\ \A d \in DOMAIN get_device_status :
          /\ get_device_status[d] = "Idle" <=> d \notin DOMAIN active_streams
          /\ get_device_status[d] \in {"Idle", "Playing", "Finished"}
    /\ DOMAIN sessions = {} => \A d \in DOMAIN get_device_status : get_device_status[d] = "Idle"

\* one catalog device has a registered stream that was not yet started,
\* another one is idle, and the host has a device outside the catalog
C10_Witness ==
    /\ \E d \in DOMAIN get_device_status :
          /\ d \in DOMAIN active_streams
          /\ sessions[active_streams[d]].stream = "new"
          /\ get_device_status[d] = "Finished"
    /\ \E d \in DOMAIN get_device_status : get_device_status[d] = "Idle"
    /\ \E d \in DeviceIds : d \notin DOMAIN get_device_status

\* C11: play_on_device on a device that is not in the catalog, that has a
\* registry entry, or with the registry at its limit, returns False through
\* one of the three return statements (not through the exception handler)
\* and leaves active_streams, stop_events and playback_threads as they were
C11_RefusalsLeaveRegistry ==
    [][\A r \in RequestIds, d \in 0 .. NumDevices :
          (/\ PodCheck(r, d)
           /\ \/ d \notin Catalog
              \/ d \in DOMAIN active_streams
              \/ Cardinality(DOMAIN active_streams) >= max_simultaneous_streams)
             => /\ d \in DOMAIN req'[r].results
                /\ ~req'[r].results[d].success
                /\ req'[r].results[d].said =
                      IF d \notin Catalog THEN "not found"
                      ELSE IF d \in DOMAIN active_streams THEN "already playing"
                      ELSE "limit reached"
                /\ <<r, d>> \notin DOMAIN calls'
                /\ UNCHANGED <<active_streams, stop_events, playback_threads, sessions>>]_vars

\* a call on an idle catalog device was refused because the registry was at
\* its limit, and the sessions that fill it are still registered
C11_Witness ==
    \E r \in RequestIds, d \in Catalog :
       /\ d \in DOMAIN req[r].results
       /\ req[r].results[d].said = "limit reached"
       /\ d \notin DOMAIN active_streams
       /\ Cardinality(DOMAIN active_streams) = max_simultaneous_streams
       /\ DOMAIN stop_events = DOMAIN active_streams

\* the play-all call of handler r ran on its own: every session there is was
\* started by it, no stop has touched one, no stream failed to open and no
\* worker has met an error or ended
RanAlone(r) ==
    \A s \in DOMAIN sessions :
       /\ sessions[s].batch = req[r].pid
       /\ ~sessions[s].stopped
       /\ sessions[s].stream # "none"
       /\ sessions[s].wpc \in {"start", "write", "wait"}

\* C12: when play_on_all_devices returns after running on its own with no
\* more probed devices than the limit, every start attempt has resolved, the
\* result map has exactly the devices that passed the probe as keys, every
\* value is true, each of them has its stream, stop event and worker
\* registered, and no other catalog device has a registry entry
C12_PlayAllStartsProbedDevices ==
    [][\A r \in RequestIds :
          (/\ PlayAllFlag(r)
           /\ RanAlone(r)
           /\ Cardinality(req[r].probed) <= max_simultaneous_streams)
             => /\ \A c \in DOMAIN calls : c[1] # r
                /\ DOMAIN req'[r].results = req[r].probed
                /\ \A d \in req[r].probed :
                      /\ req'[r].results[d].success
                      /\ d \in DOMAIN active_streams'
                      /\ sessions'[active_streams'[d]].batch = req[r].pid
                      /\ d \in DOMAIN stop_events'
                      /\ d \in DOMAIN playback_threads'
                /\ \A d \in Catalog \ req[r].probed :
                      d \notin DOMAIN active_streams']_vars

\* play_on_all_devices has returned with one device skipped by the probe;
\* the worker of a started device has not yet begun to play
C12_Witness ==
    \E r \in RequestIds :
       /\ req[r].kind = "play_all"
       /\ req[r].pc = "store"
       /\ RanAlone(r)
       /\ req[r].probed # {}
       /\ Catalog \ req[r].probed # {}
       /\ DOMAIN req[r].results = req[r].probed
       /\ \E s \in DOMAIN sessions : sessions[s].wpc = "start"
       /\ DOMAIN active_streams = req[r].probed

\* C13: a play-multi request whose number of files differs from its number
\* of device mappings, and the answer to it, leave the three registry dicts,
\* the sessions, the invocations of play_on_device, the tracked batches and
\* the temp files on disk as they were
C13_MismatchRejected ==
    [][\A r \in RequestIds :
          /\ (budget'.ops < budget.ops /\ FreeSlot(r))
                => \A files \in FileInputs, mappings \in MappingInputs :
                      (/\ Len(files) # Cardinality(DOMAIN mappings)
                       /\ PlayMultiRequest(r, files, mappings))
                         => /\ req'[r].pc = "rejected"
                            /\ UNCHANGED <<active_streams, stop_events, playback_threads,
                                            sessions, calls, active_playbacks, disk>>
          /\ PlayMultiReject(r)
                => UNCHANGED <<active_streams, stop_events, playback_threads,
                               sessions, calls, active_playbacks, disk>>]_vars

\* a mismatched play-multi request is being answered while a session is
\* registered and a batch with its temp file is tracked
C13_Witness ==
    \E r \in RequestIds :
       /\ req[r].kind = "play_multi"
       /\ req[r].pc = "rejected"
       /\ DOMAIN active_streams # {}
       /\ DOMAIN active_playbacks # {}
       /\ disk # {}

\* the sessions that play-multi batch p started and whose worker has not ended
StartedFor(p) ==
    {s \in DOMAIN sessions : /\ p # 0
                             /\ sessions[s].cb = p
                             /\ sessions[s].stream # "none"}

\* every task of an accepted play-multi request pairs the temp file saved
\* from one uploaded position with the device that position is mapped to
TasksFollowMapping ==
    \A r \in RequestIds :
       (budget'.ops < budget.ops /\ FreeSlot(r))
          => \A files \in FileInputs, mappings \in MappingInputs :
                (PlayMultiRequest(r, files, mappings) /\ req'[r].pc = "task")
                   => \A k \in 1 .. Len(req'[r].tasks) :
                         LET t == req'[r].tasks[k] IN
                         /\ files[t.idx] = "ok"
                         /\ (t.idx - 1) \in DOMAIN mappings
                         /\ mappings[t.idx - 1] = t.dev
                         /\ t.file \notin disk
                         /\ t.file \in disk'
                         /\ \A j \in 1 .. Len(req'[r].tasks) :
                               j # k => /\ req'[r].tasks[j].file # t.file
                                        /\ req'[r].tasks[j].idx # t.idx

\* a session started by a play-multi request plays the file of a task of
\* that request for its device
SessionsPlayTheirTask ==
    \A r \in RequestIds :
       req[r].kind = "play_multi"
          => \A s \in StartedFor(req[r].pid) :
                \E k \in 1 .. Len(req[r].tasks) :
                   /\ req[r].tasks[k].dev = sessions[s].dev
                   /\ req[r].tasks[k].file = sessions[s].file

LastTaskFor(tasks, d) ==
    tasks[CHOOSE k \in 1 .. Len(tasks) :
             /\ tasks[k].dev = d
             /\ \A j \in 1 .. Len(tasks) : tasks[j].dev = d => j <= k]

SiblingsUntouched(r) ==
    /\ req'[r].kind = "play_multi"
    /\ req'[r].pc = "task"
    /\ req'[r].tasks = req[r].tasks
    /\ req'[r].i >= req[r].i
    /\ active_streams' = active_streams
    /\ playback_threads' = playback_threads
    /\ \A s \in DOMAIN sessions :
          sessions[s].wpc # "none" => sessions'[s] = sessions[s]

\* C15: when a task of a play-multi request fails (its file does not load,
\* its device is not in the catalog, is busy, the registry is at its limit,
\* or the stream does not open), success = false is recorded in the slot of
\* the task's device, the request goes on with its other tasks, no sibling
\* session is touched, and when the request answers every task has a slot
C15_TaskFailuresIsolated ==
    [][\A r \in RequestIds :
          req[r].kind = "play_multi"
             => /\ (PlayMultiTask(r) /\ calls' = calls)
                      => LET d == req[r].tasks[req[r].i].dev IN
                         /\ d \in DOMAIN req'[r].results
                         /\ ~req'[r].results[d].success
                         /\ req'[r].i = req[r].i + 1
                         /\ SiblingsUntouched(r)
                /\ \A d \in DeviceIds :
                      /\ (/\ PodCheck(r, d)
                          /\ \/ d \notin Catalog
                             \/ d \in DOMAIN active_streams
                             \/ Cardinality(DOMAIN active_streams) >= max_simultaneous_streams)
                            => /\ d \in DOMAIN req'[r].results
                               /\ ~req'[r].results[d].success
                               /\ SiblingsUntouched(r)
                      /\ (PodCreate(r, d) /\ d \notin DOMAIN active_streams')
                            => /\ d \in DOMAIN req'[r].results
                               /\ ~req'[r].results[d].success
                               /\ SiblingsUntouched(r)
                /\ PlayMultiStore(r)
                      => \A k \in 1 .. Len(req[r].tasks) :
                            req[r].tasks[k].dev \in DOMAIN req[r].results]_vars

\* a play-multi request is about to answer: the task of one device failed,
\* the session a sibling task started on another device is registered and
\* untouched by any stop
C15_Witness ==
    \E r \in RequestIds :
       /\ req[r].kind = "play_multi"
       /\ req[r].pc = "task"
       /\ req[r].i > Len(req[r].tasks)
       /\ \E d \in DOMAIN req[r].results : ~req[r].results[d].success
       /\ \E s \in StartedFor(req[r].pid) :
             /\ sessions[s].dev \in DOMAIN req[r].results
             /\ req[r].results[sessions[s].dev].success
             /\ active_streams[sessions[s].dev] = s
             /\ ~sessions[s].stopped
             /\ ~sessions[s].event

\* every session in the registry was registered before the stop_all_playback
\* call of some stop request left its signalling loop
RegistryCovered ==
    /\ \A d \in DOMAIN active_streams : sessions[active_streams[d]].stopped
    /\ \A d \in DOMAIN stop_events : sessions[stop_events[d]].stopped
    /\ \A d \in DOMAIN playback_threads : sessions[playback_threads[d]].stopped

\* C16: a /api/force-stop request ends only by its success answer, whatever
\* raised on the way; at that answer no batch is tracked, every temp file a
\* tracked batch owned is off the disk unless its unlink failed, and the
\* registry, when no session was added to it after the signalling loop, is
\* empty
C16_ForceStopAlwaysClears ==
    [][\A r \in RequestIds :
          req[r].kind = "force_stop"
             => /\ req'[r].kind = "none" => ForceStopBatches(r)
                /\ ForceStopBatches(r)
                      => /\ active_playbacks' = EmptyDict
                         /\ \A p \in DOMAIN active_playbacks :
                               \A f \in active_playbacks[p].files :
                                  f \in disk' => budget'.faults < budget.faults
                         /\ RegistryCovered
                               => /\ active_streams' = EmptyDict
                                  /\ playback_threads' = EmptyDict
                                  /\ stop_events' = EmptyDict]_vars

\* no stream, worker or stop event is registered
RegistryEmpty ==
    /\ active_streams = EmptyDict
    /\ playback_threads = EmptyDict
    /\ stop_events = EmptyDict

\* the sessions as the program holds them (stream state, stop event, worker
\* position), without the record of which stop has covered them
Held(ss) == [s \in DOMAIN ss |-> [ss[s] EXCEPT !.stopped = FALSE]]

C18_SweepEndsOldBatches ==
    [][cleanup_temp_files
          => \A p \in DOMAIN active_playbacks :
                active_playbacks[p].old
                   => /\ p \notin DOMAIN active_playbacks'
                      /\ active_playbacks[p].files \cap disk' = {}]_vars

\* the stream and the stop event registered under the device of session s
\* are those of s
Registered(s) ==
    /\ sessions[s].dev \in DOMAIN active_streams
    /\ active_streams[sessions[s].dev] = s
    /\ sessions[s].dev \in DOMAIN stop_events
    /\ stop_events[sessions[s].dev] = s

\* C19: a session started by a call made after a stop, registered and not
\* asked to stop,
\* keeps its stream entry and its stop event when the worker of an earlier
\* session on the same device, which a stop has signalled, runs its cleanup
C19_RestartKeepsEntry ==
    [][\A s \in DOMAIN sessions : \A o \in (DOMAIN sessions) \ {s} :
          (/\ WorkerCleanup(o)
           /\ sessions[o].dev = sessions[s].dev
           /\ sessions[o].stopped
           /\ sessions[o].wpc = "cleanup"
           /\ sessions[s].after
           /\ Registered(s)
           /\ ~sessions[s].stopped)
             => Registered(s)']_vars

\* C20: a /api/stop-playback request that carries a batch id no tracked batch
\* has (an id never given out, or the id of a batch already ended) ends by
\* its success answer, the last step of the handler, never by an error answer
C20_AbsentBatchStopSucceeds ==
    [][\A r \in RequestIds :
          (/\ req[r].kind = "stop"
           /\ req[r].pid # 0
           /\ req[r].pid \notin DOMAIN active_playbacks
           /\ req'[r].kind = "none")
             => StopBatches(r)]_vars

\* hosts: every assignment of output channel counts to the devices, with
\* any of them, or none (-1), as the default output
Hosts == {[channels |-> c, default |-> k] :
             c \in [DeviceIds -> 0 .. MaxOutputs], k \in DeviceIds \cup {0 - 1}}

\* the server answering /api/devices requests, on any host
CatalogSteps ==
    \/ \E r \in RequestIds : GetDevicesBegin(r)
    \/ \E r \in RequestIds : DiscoverQuery(r)
    \/ \E r \in RequestIds : DiscoverAppend(r)
    \/ \E r \in RequestIds : GetDevicesReturn(r)
CatalogInit ==
    \E h \in Hosts :
       Constructed([ops |-> MaxOps, faults |-> MaxFaults, sessions |-> 0], h, <<>>)
CatalogSpec == CatalogInit /\ [][CatalogSteps]_vars

\* the positions of catalog cat that hold device d
Entries(cat, d) == {k \in 1 .. Len(cat) : cat[k] = d}

\* C21: when a discover_devices call whose host query succeeded returns, the
\* catalog holds exactly the host devices that have output channels, each
\* once and in the host's order (what every other such call yields on the
\* same host), and at most one entry is marked is_default
C21_DiscoverIsFullRefresh ==
    [][\A r \in RequestIds :
          (GetDevicesReturn(r) /\ ~req[r].err)
             => /\ \A d \in DeviceIds :
                      Cardinality(Entries(devices, d)) = IF HasOutput(d) THEN 1 ELSE 0
                /\ devices = Outputs(host)
                /\ Cardinality({k \in 1 .. Len(devices) :
                                    AudioDevice(devices[k]).is_default}) <= 1]_vars

\* the engine playing buffers of any channel count, on any host, after
\* discovery
StreamSteps ==
    \/ \E r \in RequestIds, d \in DeviceIds, c \in 1 .. MaxChannels : PlayBufferBegin(r, d, c)
    \/ \E r \in RequestIds : PlayDeviceReturn(r)
    \/ \E c \in RequestIds \X DeviceIds : PodCheck(c[1], c[2])
    \/ \E c \in RequestIds \X DeviceIds : PodCreate(c[1], c[2])
    \/ \E c \in RequestIds \X DeviceIds : PodThread(c[1], c[2])
    \/ \E s \in SessionIds : WorkerStart(s)
    \/ \E s \in SessionIds : WorkerWrite(s)
    \/ \E s \in SessionIds : Drain(s)
    \/ \E s \in SessionIds : WorkerCleanup(s)
StreamInit ==
    \E h \in Hosts :
       Constructed([ops |-> 1, faults |-> 0, sessions |-> 1], h, Outputs(h))
StreamSpec == StreamInit /\ [][StreamSteps]_vars

\* C22: every opened stream has min(buffer channels, device limit) channels,
\* never more than the buffer has, and the data a worker is about to write
\* has as many channels as its stream
C22_ChannelsMatch ==
    \A s \in DOMAIN sessions :
       sessions[s].stream # "none"
          => /\ sessions[s].channels
                   = Min(sessions[s].buf, host.channels[sessions[s].dev])
             /\ sessions[s].channels <= sessions[s].buf
             /\ sessions[s].wpc = "write" => sessions[s].data = sessions[s].channels

\* the devices whose probe played, for the probe outcomes out
Played(out) == {d \in DOMAIN out : out[d] = "played"}

\* C23: test_device turns every backend outcome into a boolean and lets no
\* exception out; so for every combination of probe outcomes in which some
\* device plays the tone, play_on_all_devices goes on and submits a start for
\* exactly the devices whose probe played, and test_all_devices returns a
\* result for every catalog device, false for those whose probe failed
C23_ProbeFailuresContained ==
    [][/\ \A o \in ProbeOutcomes :
             /\ ~test_device(o).raised
             /\ test_device(o).value = (o = "played")
       /\ \A r \in RequestIds : \A out \in [Catalog -> ProbeOutcomes] :
             /\ (PlayAllRequest(r, TRUE, out) /\ Played(out) # {})
                   => /\ req'[r].kind = "play_all"
                      /\ req'[r].probed = Played(out)
                      /\ \A d \in Catalog :
                            <<r, d>> \in DOMAIN calls' <=> d \in Played(out)
             /\ TestAllRequest(r, out)
                   => /\ ~req'[r].err
                      /\ DOMAIN req'[r].results = Catalog
                      /\ \A d \in Catalog :
                            req'[r].results[d].success = (out[d] = "played")]_vars

\* play_on_all_devices went on after a probe failed: the request has
\* submitted its starts, one catalog device was skipped, the failure is the
\* one the run's fault went to, and a start on a probed device is under way
C23_Witness ==
    \E r \in RequestIds :
       /\ req[r].kind = "play_all"
       /\ req[r].pc = "fanout"
       /\ req[r].probed # {}
       /\ Catalog \ req[r].probed # {}
       /\ budget.faults = MaxFaults - 1
       /\ \E d \in req[r].probed :
             /\ <<r, d>> \in DOMAIN calls
             /\ calls[<<r, d>>].pc = "thread"

\* play_on_device invocations between their tests of the registry (lines
\* 142-149) and their last write to it (line 229)
StartsInside == {c \in DOMAIN calls : calls[c].pc \in {"create", "thread"}}

\* stop_all_playback invocations between their first read of the registry
\* (line 308) and the clear() calls (lines 368-370)
StopsInside ==
    {r \in RequestIds : /\ req[r].kind \in {"stop", "force_stop"}
                        /\ req[r].pc \in {"signalled", "streams", "clear"}}

\* C24: at most one start or stop is inside its access to the registry at a
\* time, and a worker runs its cleanup of the registry only while none is
C24_RegistrySerialized ==
    /\ [](Cardinality(StartsInside) + Cardinality(StopsInside) <= 1)
    /\ [][\A s \in SessionIds :
             WorkerCleanup(s) => StartsInside = {} /\ StopsInside = {}]_vars

\* the sessions on device d whose stream was opened, that no stop has been
\* asked to end and whose worker has neither met an error nor left its loop
LiveOn(d) ==
    {s \in DOMAIN sessions : /\ sessions[s].dev = d
                             /\ sessions[s].stream # "none"
                             /\ ~sessions[s].stopped
                             /\ sessions[s].wpc \in {"none", "start", "write", "wait"}}

\* C25: a device has at most one such session at a time, and the stream and
\* the stop event registered under the device are those of that session
C25_OneSessionPerDevice ==
    \A d \in DeviceIds :
       /\ Cardinality(LiveOn(d)) <= 1
       /\ \A s \in LiveOn(d) : Registered(s)

\* the engine after discovery, driven through /api/play-device,
\* /api/stop-playback and /api/playback-status
StatusSteps ==
    \/ \E r \in RequestIds, d \in DeviceIds : PlayDeviceBegin(r, d)
    \/ \E r \in RequestIds : PlayDeviceReturn(r)
    \/ \E r \in RequestIds : StopBegin(r, 0)
    \/ \E r \in RequestIds : StopSignal(r)
    \/ \E r \in RequestIds : StopSignalEnd(r)
    \/ \E r \in RequestIds : StopStreams(r)
    \/ \E r \in RequestIds : StopClear(r)
    \/ \E r \in RequestIds : StopBatches(r)
    \/ \E r \in RequestIds : StatusBegin(r)
    \/ \E r \in RequestIds : StatusTest(r)
    \/ \E r \in RequestIds : StatusRead(r)
    \/ \E r \in RequestIds : StatusReturn(r)
    \/ \E c \in RequestIds \X DeviceIds : PodCheck(c[1], c[2])
    \/ \E c \in RequestIds \X DeviceIds : PodCreate(c[1], c[2])
    \/ \E c \in RequestIds \X DeviceIds : PodThread(c[1], c[2])
    \/ \E s \in SessionIds : WorkerStart(s)
    \/ \E s \in SessionIds : WorkerWrite(s)
    \/ \E s \in SessionIds : Drain(s)
    \/ \E s \in SessionIds : WorkerExit(s)
    \/ \E s \in SessionIds : WorkerCleanup(s)
StatusInit == Constructed([ops |-> MaxOps, faults |-> 0, sessions |-> ServerSessions],
                          StereoHost, Outputs(StereoHost))
StatusSpec == StatusInit /\ [][StatusSteps]_vars

\* C26: a get_device_status call that runs next to starts, stops and worker
\* cleanups returns without an error, with one entry for every catalog device
C26_StatusCompletes ==
    [][\A r \in RequestIds :
          StatusReturn(r)
             => /\ ~req[r].err
                /\ DOMAIN req[r].results = Catalog]_vars

\* C27: one stop_all_playback call acts in order: when it handles the
\* streams, the stop event of every session whose stream was registered as
\* the call started is set; it joins and clears only after it has handled the
\* streams, and it has emptied the registry when it leaves the clearing step
C27_StopActsInOrder ==
    [][\A r \in RequestIds :
          /\ StopStreams(r) => /\ req[r].pc = "streams"
                               /\ \A s \in req[r].atcall : sessions[s].event
          /\ StopClear(r) => /\ req[r].pc = "clear"
                             /\ RegistryEmpty']_vars

\* the engine after discovery, driven through /api/play-device and
\* /api/stop-playback, with no backend fault
LiveSteps ==
    \/ \E r \in RequestIds, d \in DeviceIds : PlayDeviceBegin(r, d)
    \/ \E r \in RequestIds : PlayDeviceReturn(r)
    \/ \E r \in RequestIds : StopBegin(r, 0)
    \/ \E r \in RequestIds : StopSignal(r)
    \/ \E r \in RequestIds : StopSignalEnd(r)
    \/ \E r \in RequestIds : StopStreams(r)
    \/ \E r \in RequestIds : StopClear(r)
    \/ \E r \in RequestIds : StopBatches(r)
    \/ \E c \in RequestIds \X DeviceIds : PodCheck(c[1], c[2])
    \/ \E c \in RequestIds \X DeviceIds : PodCreate(c[1], c[2])
    \/ \E c \in RequestIds \X DeviceIds : PodThread(c[1], c[2])
    \/ \E s \in SessionIds : WorkerStart(s)
    \/ \E s \in SessionIds : WorkerWrite(s)
    \/ \E s \in SessionIds : Drain(s)
    \/ \E s \in SessionIds : WorkerExit(s)
    \/ \E s \in SessionIds : WorkerCleanup(s)
LiveInit == Constructed([ops |-> MaxOps, faults |-> 0, sessions |-> ServerSessions],
                        StereoHost, Outputs(StereoHost))

\* the thread that runs stop_all_playback is scheduled again and again; no
\* worker thread has to be (a join gives up after its timeout, line 351)
StopFairSpec ==
    /\ LiveInit
    /\ [][LiveSteps]_vars
    /\ \A r \in RequestIds :
          /\ WF_vars(StopSignal(r))
          /\ WF_vars(StopSignalEnd(r))
          /\ WF_vars(StopStreams(r))
          /\ WF_vars(StopClear(r))

\* every started worker thread is scheduled again and again
\* (threading.Thread, lines 228-230)
WorkerFairSpec ==
    /\ LiveInit
    /\ [][LiveSteps]_vars
    /\ \A s \in SessionIds :
          /\ WF_vars(WorkerStart(s))
          /\ WF_vars(WorkerWrite(s))
          /\ WF_vars(WorkerExit(s))
          /\ WF_vars(WorkerCleanup(s))

\* C28: every stop_all_playback call that /api/stop-playback makes returns,
\* having cleared the registry, whether or not any worker ever exits
C28_StopTerminates ==
    \A r \in RequestIds :
       (req[r].kind = "stop" /\ req[r].pc = "signal")
          ~> (req[r].kind = "stop" /\ req[r].pc = "batches" /\ RegistryEmpty)

\* a worker thread that has been started and has not reached its finally block
Running(s) == s \in DOMAIN sessions /\ sessions[s].wpc \in {"start", "write", "wait"}
\* a worker thread that has ended
Ended(s) == s \in DOMAIN sessions /\ sessions[s].wpc \in {"done", "gone"}

\* C29: a worker that has written its buffer leaves its polling loop only
\* when its stop event is set, however long it waited and whether or not its
\* stream has played out; and a running worker whose stop event is set
\* ends, with its stream closed, when worker threads are scheduled fairly
C29_CancellationCooperative ==
    /\ [][\A s \in DOMAIN sessions :
             sessions[s].wpc = "wait" /\ sessions'[s].wpc # "wait" => sessions[s].event]_vars
    /\ \A s \in SessionIds :
          (Running(s) /\ sessions[s].event)
             ~> (Ended(s) /\ sessions[s].stream = "closed")

\* a worker has left its polling loop after a stop set its event, when its
\* stream had already played out, and has closed the stream
C29_Witness ==
    \E s \in DOMAIN sessions :
       /\ sessions[s].wpc = "cleanup"
       /\ sessions[s].event
       /\ sessions[s].stopped
       /\ sessions[s].stream = "closed"
       /\ s \in Range(stop_events)

\* the place of a reported state in the order Idle, Playing, Finished
Rank(text) == IF text = "Idle" THEN 0 ELSE IF text = "Playing" THEN 1 ELSE 2

\* C30: while one session stays registered for a device, the state that
\* get_device_status reports for the device never steps back in the order
\* Idle, Playing, Finished; a session just registered is not reported
\* "Finished" before "Playing"
C30_StatusMonotonic ==
    [][\A d \in Catalog :
          (/\ d \in DOMAIN active_streams
           /\ d \in DOMAIN active_streams'
           /\ active_streams'[d] = active_streams[d])
             => Rank(DeviceState(d)') >= Rank(DeviceState(d))]_vars

\* the registry holds max_simultaneous_streams sessions or more, and each of
\* them has written its buffer and its stream has played out
FullOfFinished ==
    /\ Cardinality(DOMAIN active_streams) >= max_simultaneous_streams
    /\ \A d \in DOMAIN active_streams :
          /\ sessions[active_streams[d]].wpc = "wait"
          /\ sessions[active_streams[d]].stream = "inactive"

\* C31: while the registry is full of finished sessions, the checks of a
\* play_on_device call for a further device return False, and the registry
\* loses an entry only in a step of stop_all_playback
C31_FinishedHoldsSlot ==
    [][FullOfFinished =>
          /\ \A r \in RequestIds, d \in DeviceIds :
                PodCheck(r, d) /\ d \notin DOMAIN active_streams
                   => /\ d \in DOMAIN req'[r].results
                      /\ ~req'[r].results[d].success
          /\ (DOMAIN active_streams \ DOMAIN active_streams' # {})
                => \E r \in RequestIds : StopStreams(r) \/ StopClear(r)]_vars

\* C32: once self.devices holds the complete catalog of the host, every
\* later state holds it too: a reader of self.devices (get_device_status,
\* the lookup of play_on_device, the loop of play_on_all_devices) and the
\* holder of a list an earlier discover_devices returned never find the list
\* empty or partly filled
C32_CatalogSwappedWhole ==
    [][devices = Outputs(host) => devices' = Outputs(host)]_vars

\* C33: every running worker whose stop event is not set has that event
\* registered in stop_events under its device, where the next
\* stop_all_playback finds it
C33_NoOrphanWorker ==
    \A s \in DOMAIN sessions :
       Running(s) /\ ~sessions[s].event
          => /\ sessions[s].dev \in DOMAIN stop_events
             /\ stop_events[sessions[s].dev] = s

\* temp file f is named by a batch that pb tracks
Owned(pb, f) == \E p \in DOMAIN pb : f \in pb[p].files

\* C34: when a play-all or play-multi request answers, at once on one of its
\* error paths or after it has stored its batch, every temp file the request
\* saved is either off the disk or named by a tracked batch
C34_NoOrphanTempFile ==
    [][\A r \in RequestIds :
          /\ (PlayAllBegin(r) \/ PlayMultiBegin(r)) /\ req'[r].kind = "none"
                => \A f \in disk' \ disk : Owned(active_playbacks', f)
          /\ (PlayAllStore(r) \/ PlayMultiStore(r))
                => \A f \in TaskFiles(req[r].tasks) \cap disk' :
                      Owned(active_playbacks', f)]_vars

\* the old batches that have a session registered
SweptWithSessions ==
    {p \in DOMAIN active_playbacks :
        /\ active_playbacks[p].old
        /\ \E s \in Range(active_streams) : sessions[s].batch = p}

\* C35: a pass of the sweep that removes a batch whose sessions are still
\* registered changes no session and no registry entry, and the answer of
\* /api/playback-status (devices map and is_playing) is the same after the
\* pass as before it
C35_SweepIsNotAStop ==
    [][cleanup_temp_files /\ SweptWithSessions # {}
          => /\ sessions' = sessions
             /\ active_streams' = active_streams
             /\ stop_events' = stop_events
             /\ playback_threads' = playback_threads
             /\ get_playback_status' = get_playback_status]_vars

\* the status the worker of session s reported last through status_callback
\* (lines 176-177, 205-206, 214-215)
LastReported(s) ==
    IF sessions[s].wpc = "failed" THEN "Error"
    ELSE IF sessions[s].wpc = "cleanup" THEN "Finished"
    ELSE "Playing"

\* C36: once a play-multi request has stored its batch, the device_status
\* entry of every device the batch started is the status the worker of that
\* device reported last, also when the worker reported before the record
\* was stored
C36_NoStatusLost ==
    \A s \in DOMAIN sessions :
       LET p == sessions[s].cb
           k == Str(sessions[s].dev) IN
       (/\ p # 0
        /\ p \in DOMAIN active_playbacks
        /\ sessions[s].wpc \in {"write", "wait", "failed", "cleanup"}
        /\ \A o \in DOMAIN sessions :
              sessions[o].cb = p /\ sessions[o].dev = sessions[s].dev => o = s
        /\ k \in DOMAIN active_playbacks[p].device_status)
          => active_playbacks[p].device_status[k] = LastReported(s)

\* one /api/play-multi-files request on a host where every device,
\* device 0 included, has output
MultiSteps ==
    \/ \E r \in RequestIds : PlayMultiBegin(r)
    \/ \E r \in RequestIds : PlayMultiReject(r)
    \/ \E r \in RequestIds : PlayMultiTask(r)
    \/ \E r \in RequestIds : PlayMultiStore(r)
    \/ \E c \in RequestIds \X DeviceIds : PodCheck(c[1], c[2])
    \/ \E c \in RequestIds \X DeviceIds : PodCreate(c[1], c[2])
    \/ \E c \in RequestIds \X DeviceIds : PodThread(c[1], c[2])
    \/ \E s \in SessionIds : WorkerStart(s)
    \/ \E s \in SessionIds : WorkerWrite(s)
    \/ \E s \in SessionIds : Drain(s)
MultiInit == Constructed([ops |-> 1, faults |-> 0, sessions |-> MaxFiles],
                         StereoHost, Outputs(StereoHost))
MultiSpec == MultiInit /\ [][MultiSteps]_vars

\* the positions of the upload that have a file name and a mapping entry
\* with a catalog device
Mapped(files, mappings) ==
    {i \in 1 .. Len(files) : /\ files[i] = "ok"
                              /\ (i - 1) \in DOMAIN mappings
                              /\ mappings[i - 1] \in Catalog}

\* C37: a play-multi request with as many files as mappings and no file
\* of a type that is not allowed gets one task, on the mapped device, for
\* every position that has a file name and a mapping entry, device 0
\* included; and when it answers, its result map has one slot per task
C37_EveryMappedFileAttempted ==
    [][\A r \in RequestIds :
          /\ (budget'.ops < budget.ops /\ FreeSlot(r))
                => \A files \in FileInputs, mappings \in MappingInputs :
                      (/\ PlayMultiRequest(r, files, mappings)
                       /\ ~LengthsDiffer(files, mappings)
                       /\ \A i \in 1 .. Len(files) : files[i] # "bad")
                         => /\ {req'[r].tasks[k].idx : k \in 1 .. Len(req'[r].tasks)}
                                  = Mapped(files, mappings)
                            /\ \A k \in 1 .. Len(req'[r].tasks) :
                                  req'[r].tasks[k].dev = mappings[req'[r].tasks[k].idx - 1]
          /\ PlayMultiStore(r)
                => Cardinality(DOMAIN req[r].results) = Len(req[r].tasks)]_vars

\* a host whose device 0 has one output channel and whose other devices
\* have two
MixedHost == [channels |-> [d \in DeviceIds |-> IF d = 0 THEN 1 ELSE 2], default |-> 1]

\* one play-all request at a time on that host: a stereo buffer is handed to
\* sessions on devices with different channel limits
ShareSteps ==
    \/ \E r \in RequestIds : PlayAllBegin(r)
    \/ \E r \in RequestIds : PlayAllFlag(r)
    \/ \E r \in RequestIds : PlayAllStore(r)
    \/ \E c \in RequestIds \X DeviceIds : PodCheck(c[1], c[2])
    \/ \E c \in RequestIds \X DeviceIds : PodCreate(c[1], c[2])
    \/ \E c \in RequestIds \X DeviceIds : PodThread(c[1], c[2])
    \/ \E s \in SessionIds : WorkerStart(s)
    \/ \E s \in SessionIds : WorkerWrite(s)
    \/ \E s \in SessionIds : Drain(s)
ShareInit == Constructed([ops |-> 1, faults |-> 0, sessions |-> NumDevices],
                         MixedHost, Outputs(MixedHost))
ShareSpec == ShareInit /\ [][ShareSteps]_vars

\* C38: the buffer a play-all request loaded keeps its channel count while
\* its invocations of play_on_device run, and the stream channels and the
\* data of every session are those computed from the loaded buffer and the
\* session's own device
C38_BufferSharedReadOnly ==
    /\ \A c \in DOMAIN calls : calls[c].buf = FileChannels
    /\ \A s \in DOMAIN sessions :
          LET m == AudioDevice(sessions[s].dev).max_output_channels IN
          /\ sessions[s].buf = FileChannels
          /\ sessions[s].channels = StreamChannels(FileChannels, m)
          /\ sessions[s].data = DataChannels(FileChannels, m)

\* one play-all request has a downmixed session on the one-channel device
\* and a stereo session on another device
C38_Witness ==
    \E s, t \in DOMAIN sessions :
       /\ sessions[s].batch = sessions[t].batch
       /\ sessions[s].batch # 0
       /\ sessions[s].data = 1
       /\ sessions[s].buf = 2
       /\ sessions[t].data = 2
       /\ sessions[t].channels = 2

\* dict g has no entry under key k that dict f does not have
NothingNewUnder(f, g, k) == k \in DOMAIN g => (k \in DOMAIN f /\ g[k] = f[k])

\* C39: the step in which an invocation of play_on_device returns False,
\* for whatever reason, leaves under its device no entry of active_streams,
\* stop_events or playback_threads that was not there before
C39_FailedStartLeavesNoResidue ==
    [][\A c \in DOMAIN calls :
          (/\ c \notin DOMAIN calls'
           /\ c[2] \in DOMAIN req'[c[1]].results
           /\ ~req'[c[1]].results[c[2]].success)
             => /\ NothingNewUnder(active_streams, active_streams', c[2])
                /\ NothingNewUnder(stop_events, stop_events', c[2])
                /\ NothingNewUnder(playback_threads, playback_threads', c[2])]_vars

\* the server with room for a third request, without faults, driven through
\* play-all, play-multi and stop only
BatchSteps ==
    \/ \E r \in RequestIds : PlayAllBegin(r)
    \/ \E r \in RequestIds : PlayAllFlag(r)
    \/ \E r \in RequestIds : PlayAllStore(r)
    \/ \E r \in RequestIds : PlayMultiBegin(r)
    \/ \E r \in RequestIds : PlayMultiReject(r)
    \/ \E r \in RequestIds : PlayMultiTask(r)
    \/ \E r \in RequestIds : PlayMultiStore(r)
    \/ \E r \in RequestIds, pid \in 1 .. MaxBatches : StopBegin(r, pid)
    \/ \E r \in RequestIds : StopSignal(r)
    \/ \E r \in RequestIds : StopSignalEnd(r)
    \/ \E r \in RequestIds : StopStreams(r)
    \/ \E r \in RequestIds : StopClear(r)
    \/ \E r \in RequestIds : StopBatches(r)
    \/ \E c \in RequestIds \X DeviceIds : PodCheck(c[1], c[2])
    \/ \E c \in RequestIds \X DeviceIds : PodCreate(c[1], c[2])
    \/ \E c \in RequestIds \X DeviceIds : PodThread(c[1], c[2])
    \/ \E s \in SessionIds : WorkerStart(s)
    \/ \E s \in SessionIds : WorkerWrite(s)
    \/ \E s \in SessionIds : Drain(s)
    \/ \E s \in SessionIds : WorkerExit(s)
    \/ \E s \in SessionIds : WorkerCleanup(s)
BatchInit == Constructed([ops |-> MaxOps, faults |-> 0, sessions |-> ServerSessions],
                         HostWithInput,
                         Outputs(HostWithInput))
BatchSpec == BatchInit /\ [][BatchSteps]_vars

====
